---- MODULE Spec2Model ----
(***************************************************************************)
(* Embedded-database infrastructure layer of minicrm: the r2d2 connection  *)
(* pool configured by DatabasePoolBuilder::build, the DatabaseConnection   *)
(* wrapper (execute / query_row / query_map / with_transaction /           *)
(* with_read_transaction) and the MigrationManager, run by concurrent      *)
(* callers against one SQLite file in WAL mode.                            *)
(***************************************************************************)
EXTENDS Integers, Sequences, FiniteSets, TLC

\* ------------------------------------------------------------------ bounds
NumCallers == 2
MaxCapacity == 2
ConnectionTimeout == 2
NumRows == 2
MaxStmts == 2
MaxVersion == 2
MaxRegistered == 4

Callers == 1..NumCallers
Handles == 1..MaxCapacity
Rows == 1..NumRows
Versions == 1..MaxVersion

\* ------------------------------------------------------- program constants
\* PoolConfig::default().min_idle
MinIdle == 1

\* check_pool_health / get_health: utilization of 90% or more is unhealthy
UtilizationLimit == 90

\* check_performance: a query of 100 ms or more fails the check
SlowQueryMs == 100

\* check_disk_space: page_size when PRAGMA page_size fails
DefaultPageSize == 4096

\* check_disk_space: a file of 1024 MB or more fails the check
MaxDbSizeMb == 1024

\* check_disk_space: bytes in a MB, 1024.0 * 1024.0
BytesPerMb == 1048576

\* PRAGMA journal_mode = WAL: readers take no lock that a writer waits for
JournalWalOff == FALSE
JournalWal == TRUE

VARIABLES
    capacity,   \* max_connections the pool was built with
    idle,       \* established handles waiting in the pool
    conn,       \* conn[c]: handle checked out by caller c, NoHandle if none
    waited,     \* waited[c]: time c has spent blocked in pool.get()
    op,         \* op[c]: wrapper operation c is running / ran last
    pc,         \* pc[c]: position of c inside the operation
    result,     \* result[c]: outcome of the last finished operation
    acquired,   \* acquired[c]: handles obtained during the current call
    db,         \* committed contents of the storage file
    writer,     \* caller whose connection holds the engine's write lock
    base,       \* base[c]: snapshot c's open transaction reads from
    hasSnap,    \* hasSnap[c]: c's open transaction has a snapshot
    log,        \* log[c]: writes of c's open transaction, not yet committed
    nstmt,      \* nstmt[c]: statements issued by the body so far
    wrote,      \* wrote[c]: a write statement of the body succeeded
    bodyRes,    \* bodyRes[c]: what the transaction body returned
    ended,      \* ended[c]: engine operations that ended c's transaction
    endErr,     \* endErr[c]: the explicit commit() / rollback() returned Err
    serialDb,   \* contents obtained by running committed transactions one by one
    baseRef,    \* baseRef[c]: serialDb when c's snapshot was taken
    stmtErr,    \* stmtErr[c]: the body's last statement returned Err
    migrations, \* MigrationManager.migrations: registered, sorted by version
    mpc,        \* mpc[c]: position of c inside migrate()
    mtarget,    \* mtarget[c]: target_version until the plan is made, <<>> for
                \* None, <<t>> for Some(t)
    mcur,       \* mcur[c]: current_version read, until the plan is made
    mdir,       \* mdir[c]: "up" inside migrate_up, "down" inside migrate_down
    todo,       \* todo[c]: migrations still to apply / revert, in order
    script,     \* script[c]: statements the transaction closure still runs
    mres,       \* mres[c]: what the last manager call returned
    mop,        \* mop[c]: manager call c is in / returned from last
    mstatus,    \* mstatus[c]: MigrationStatus the last status call returned
    owners,     \* callers that drive the MigrationManager
    lastCall,   \* record of the most recent migrate() call of a sole owner
    prevCall,   \* argument and return value of the migrate() call before it
    regOrder,   \* versions in the order they were registered with the manager
    hpc,        \* hpc[c]: position of c inside check_health() / get_health()
    report,     \* report[c]: the health report c is building / was returned
    stmt,       \* stmt[h]: parameter bound to the statement prepared on handle h
    got,        \* got[c]: the value the query of c's task returned, 0 if none
    file,       \* the storage file exists
    boot        \* position and result of DatabaseManager::new

poolVars == <<capacity, idle, conn, waited>>
callVars == <<op, pc, result, acquired>>
engVars == <<db, writer, base, hasSnap, log>>
bodyVars == <<nstmt, wrote, bodyRes, ended, endErr, stmtErr>>
migVars == <<migrations, mpc, mtarget, mcur, mdir, todo, script, mres, mop,
             mstatus, owners, lastCall, prevCall, regOrder, hpc, report, stmt,
             got, file, boot>>
sideVars == <<regOrder, hpc, report, stmt, got, file, boot>>
refVars == <<serialDb, baseRef>>
vars == <<capacity, idle, conn, waited, op, pc, result, acquired, db, writer,
          base, hasSnap, log, nstmt, wrote, bodyRes, ended, endErr, serialDb,
          baseRef, stmtErr, migrations, mpc, mtarget, mcur, mdir, todo, script,
          mres, mop, mstatus, owners, lastCall, prevCall, regOrder, hpc,
          report, stmt, got, file, boot>>

\* ----------------------------------------------------------- storage model
\* rows: data rows; schema: versions whose forward script's effect is present;
\* ledgerTable: schema_migrations exists; ledger: versions recorded in it;
\* tables: application tables created by initialize_database.
EmptyDb ==
    [rows |-> {}, schema |-> {}, ledgerTable |-> FALSE, ledger |-> {},
     tables |-> {}]

WriteStmts == [k : {"ins", "del"}, a : Rows]

\* CREATE TABLE IF NOT EXISTS schema_migrations (...)
CreateLedger == [k |-> "create_ledger", a |-> 0]

Failed(d) == [ok |-> FALSE, db |-> d]
Done(d) == [ok |-> TRUE, db |-> d]

\* One SQL statement run against contents d. INSERT fails on a duplicate key,
\* a forward script (CREATE TABLE) fails when its table exists, a reverse
\* script (DROP TABLE) when it does not, and a statement on schema_migrations
\* fails when that table does not exist.
Apply(d, s) ==
    CASE s.k = "ins" ->
            IF s.a \in d.rows THEN Failed(d)
            ELSE Done([d EXCEPT !.rows = @ \cup {s.a}])
      [] s.k = "del" -> Done([d EXCEPT !.rows = @ \ {s.a}])
      [] s.k = "create_ledger" -> Done([d EXCEPT !.ledgerTable = TRUE])
      [] s.k = "up" ->
            IF s.a \in d.schema THEN Failed(d)
            ELSE Done([d EXCEPT !.schema = @ \cup {s.a}])
      [] s.k = "down" ->
            IF s.a \notin d.schema THEN Failed(d)
            ELSE Done([d EXCEPT !.schema = @ \ {s.a}])
      [] s.k = "ledger_ins" ->
            IF ~d.ledgerTable \/ s.a \in d.ledger THEN Failed(d)
            ELSE Done([d EXCEPT !.ledger = @ \cup {s.a}])
      [] s.k = "ledger_del" ->
            IF ~d.ledgerTable THEN Failed(d)
            ELSE Done([d EXCEPT !.ledger = @ \ {s.a}])
      [] s.k = "create_table" -> Done([d EXCEPT !.tables = @ \cup {s.a}])
      [] s.k \in {"pragma", "create_index"} -> Done(d)

RECURSIVE ApplyAll(_, _)
ApplyAll(d, lg) ==
    IF lg = <<>> THEN d ELSE ApplyAll(Apply(d, Head(lg)).db, Tail(lg))

\* What a statement of caller c reads: its own transaction's view, else the file.
TxView(c) == IF hasSnap[c] THEN ApplyAll(base[c], log[c]) ELSE db

\* ------------------------------------------------------------- r2d2 pool
Established == idle \cup {conn[c] : c \in {d \in Callers : conn[d] # 0}}

\* Pool::builder().max_size(max_connections)
PoolMaxSizeIgnored == MaxCapacity
PoolMaxSize == capacity

\* pool.get() hands out a handle that is idle in the pool
PoolPickAny == Established
PoolPick == idle

\* pool.get() gives up once connection_timeout has elapsed
TimeoutDueOnRelease(c) == waited[c] >= ConnectionTimeout /\ idle # {}
TimeoutDue(c) == waited[c] >= ConnectionTimeout

\* drop(PooledConnection): the caller's binding goes out of scope
DropConnLeak(c) == conn
DropConn(c) == [conn EXCEPT ![c] = 0]

Waiting == {c \in Callers : pc[c] = "acquire"}

\* What is kept about one migrate() call: the argument, the target it resolves
\* to, the file contents at the call, the current version it read, the
\* migrations it started and those it committed, whether it stopped at a
\* migration without down_sql, and what it returned.
NoCall ==
    [raw |-> <<>>, target |-> 0, from |-> EmptyDb, cur |-> 0, tried |-> <<>>,
     done |-> <<>>, noDown |-> FALSE, res |-> "never"]

\* What is kept about the call before the most recent one.
Summary(call) == [raw |-> call.raw, res |-> call.res, ledger |-> call.from.ledger]

\* DatabaseManager::new has returned Ok in this process: the pool is built.
Booted == [pc |-> "done", is_new_database |-> FALSE, res |-> "ok"]

TxOps == {"with_transaction", "with_read_transaction"}
PlainOps == {"execute", "query_row", "query_map"}

InitWrapper ==
    /\ capacity \in 1..MaxCapacity
    /\ idle = {1}
    /\ conn = [c \in Callers |-> 0]
    /\ waited = [c \in Callers |-> 0]
    /\ op = [c \in Callers |-> "none"]
    /\ pc = [c \in Callers |-> "idle"]
    /\ result = [c \in Callers |-> "none"]
    /\ acquired = [c \in Callers |-> 0]
    /\ db = EmptyDb
    /\ writer = 0
    /\ base = [c \in Callers |-> EmptyDb]
    /\ hasSnap = [c \in Callers |-> FALSE]
    /\ log = [c \in Callers |-> <<>>]
    /\ nstmt = [c \in Callers |-> 0]
    /\ wrote = [c \in Callers |-> FALSE]
    /\ bodyRes = [c \in Callers |-> "none"]
    /\ ended = [c \in Callers |-> <<>>]
    /\ endErr = [c \in Callers |-> FALSE]
    /\ serialDb = EmptyDb
    /\ baseRef = [c \in Callers |-> EmptyDb]
    /\ stmtErr = [c \in Callers |-> FALSE]
    /\ mpc = [c \in Callers |-> "none"]
    /\ mtarget = [c \in Callers |-> <<>>]
    /\ mcur = [c \in Callers |-> 0]
    /\ mdir = [c \in Callers |-> "none"]
    /\ todo = [c \in Callers |-> <<>>]
    /\ script = [c \in Callers |-> <<>>]
    /\ mres = [c \in Callers |-> "none"]
    /\ mop = [c \in Callers |-> "none"]
    /\ mstatus = [c \in Callers |-> "none"]
    /\ lastCall = NoCall
    /\ prevCall = Summary(NoCall)
    /\ regOrder = <<>>
    /\ hpc = [c \in Callers |-> "none"]
    /\ report = [c \in Callers |-> [kind |-> "none"]]
    /\ stmt = [h \in Handles |-> 0]
    /\ got = [c \in Callers |-> 0]
    /\ file = TRUE
    /\ boot = Booted

\* MigrationManager::new: no migration registered, no manager call made.
Init ==
    /\ InitWrapper
    /\ migrations = <<>>
    /\ owners = {}

\* A caller enters a wrapper operation: first statement is get_connection().
CallStep(c, o) ==
    /\ pc[c] = "idle"
    /\ op' = [op EXCEPT ![c] = o]
    /\ pc' = [pc EXCEPT ![c] = "acquire"]
    /\ result' = [result EXCEPT ![c] = "none"]
    /\ acquired' = [acquired EXCEPT ![c] = 0]
    /\ waited' = [waited EXCEPT ![c] = 0]
    /\ wrote' = [wrote EXCEPT ![c] = FALSE]
    /\ bodyRes' = [bodyRes EXCEPT ![c] = "none"]
    /\ ended' = [ended EXCEPT ![c] = <<>>]
    /\ endErr' = [endErr EXCEPT ![c] = FALSE]
    /\ UNCHANGED <<capacity, idle, conn, nstmt, stmtErr>>
    /\ UNCHANGED engVars
    /\ UNCHANGED refVars

Call(c, o) ==
    /\ mpc[c] = "none"
    /\ CallStep(c, o)
    /\ UNCHANGED migVars

\* r2d2 opens another connection while it has fewer idle ones than min_idle
\* and fewer connections in total than max_size.
AddConnection(h) ==
    /\ h \in Handles \ Established
    /\ Cardinality(idle) < MinIdle
    /\ Cardinality(Established) < PoolMaxSize
    /\ idle' = idle \cup {h}
    /\ UNCHANGED <<capacity, conn, waited>>
    /\ UNCHANGED callVars
    /\ UNCHANGED engVars
    /\ UNCHANGED bodyVars
    /\ UNCHANGED refVars
    /\ UNCHANGED migVars

\* get_connection() returns a handle.
Acquire(c) ==
    /\ pc[c] = "acquire"
    /\ \E h \in PoolPick :
        /\ conn' = [conn EXCEPT ![c] = h]
        /\ idle' = idle \ {h}
    /\ acquired' = [acquired EXCEPT ![c] = @ + 1]
    /\ waited' = [waited EXCEPT ![c] = 0]
    /\ pc' = [pc EXCEPT ![c] = IF op[c] \in TxOps THEN "begin" ELSE "run"]
    /\ UNCHANGED <<capacity, op, result>>
    /\ UNCHANGED engVars
    /\ UNCHANGED bodyVars
    /\ UNCHANGED refVars
    /\ UNCHANGED migVars

\* Time passes for the callers blocked in pool.get(); a due timeout fires first.
Tick ==
    /\ Waiting # {}
    /\ idle = {}
    /\ \A c \in Waiting : ~TimeoutDue(c) /\ waited[c] <= ConnectionTimeout
    /\ waited' = [c \in Callers |-> IF c \in Waiting THEN waited[c] + 1 ELSE waited[c]]
    /\ UNCHANGED <<capacity, idle, conn>>
    /\ UNCHANGED callVars
    /\ UNCHANGED engVars
    /\ UNCHANGED bodyVars
    /\ UNCHANGED refVars
    /\ UNCHANGED migVars

\* get_connection() fails: r2d2 timed out waiting for a connection.
Timeout(c) ==
    /\ pc[c] = "acquire"
    /\ idle = {}
    /\ TimeoutDue(c)
    /\ result' = [result EXCEPT ![c] = "pool_timeout"]
    /\ pc' = [pc EXCEPT ![c] = "idle"]
    /\ UNCHANGED <<poolVars, op, acquired>>
    /\ UNCHANGED engVars
    /\ UNCHANGED bodyVars
    /\ UNCHANGED refVars
    /\ UNCHANGED migVars

\* The operation returns r: its PooledConnection is dropped back into the pool.
Return(c, r) ==
    /\ conn' = DropConn(c)
    /\ idle' = idle \cup {conn[c]}
    /\ pc' = [pc EXCEPT ![c] = "idle"]
    /\ result' = [result EXCEPT ![c] = r]
    /\ UNCHANGED <<capacity, waited, op, acquired>>

\* ---------------------------------------------------------- SQLite engine
\* Callers whose write lock makes a write-intent step of d wait (SQLITE_BUSY):
\* the engine admits one writer at a time.
WriteLockFree(d) == {}
WriteLockBlockers(d) == {writer} \ {0, d}

\* Callers whose read snapshot makes a commit of d wait: none in WAL mode.
CommitBlockers(d) ==
    IF JournalWal THEN {}
    ELSE {r \in Callers \ {d} : hasSnap[r] /\ writer # r}

\* BEGIN IMMEDIATE takes the write lock at once; BEGIN DEFERRED takes nothing.
BeginLock(c) == IF op[c] = "with_transaction" THEN c ELSE writer

\* Transaction::drop: rolls back unless the transaction has already ended.
DropTx(evs) == IF evs = <<>> THEN <<"rollback">> ELSE <<>>

\* match f(&tx) { Ok => commit()?, Err(e) => { rollback, logged; Err(e) } }
TransactionResultMasked(bodyOk, endOk) ==
    IF bodyOk THEN (IF endOk THEN "ok" ELSE "commit_err")
    ELSE (IF endOk THEN "body_err" ELSE "rollback_err")
TransactionResult(bodyOk, endOk) ==
    IF bodyOk THEN (IF endOk THEN "ok" ELSE "commit_err") ELSE "body_err"

\* Contents of the file once c's transaction has ended with events evs.
EndDbKeepWrites(c, evs) == IF log[c] = <<>> THEN db ELSE ApplyAll(base[c], log[c])
EndDb(c, evs) ==
    IF evs # <<>> /\ Head(evs) = "commit" /\ log[c] # <<>>
    THEN ApplyAll(base[c], log[c])
    ELSE db

\* conn.execute(sql, params) in autocommit mode, then return.
RunExecuteStep(c, s, fail) ==
    /\ pc[c] = "run"
    /\ op[c] = "execute"
    /\ fail \/ (WriteLockBlockers(c) = {} /\ CommitBlockers(c) = {})
    /\ LET r == Apply(db, s)
           ok == ~fail /\ r.ok
       IN /\ db' = IF ok THEN r.db ELSE db
          /\ serialDb' = IF ok THEN Apply(serialDb, s).db ELSE serialDb
          /\ Return(c, IF ok THEN "ok" ELSE "sql_err")
    /\ UNCHANGED <<writer, base, hasSnap, log, baseRef>>
    /\ UNCHANGED bodyVars

RunExecute(c, s, fail) ==
    /\ mpc[c] = "none"
    /\ RunExecuteStep(c, s, fail)
    /\ UNCHANGED migVars

\* As RunQueryStep, the query creating schema_migrations when it is missing.
RunQueryStepInitializes(c, r) ==
    /\ pc[c] = "run"
    /\ op[c] \in {"query_row", "query_map"}
    /\ Return(c, r)
    /\ db' = [db EXCEPT !.ledgerTable = TRUE]
    /\ UNCHANGED <<writer, base, hasSnap, log>>
    /\ UNCHANGED bodyVars
    /\ UNCHANGED refVars

\* conn.query_row / prepare + query_map in autocommit mode, then return r.
RunQueryStep(c, r) ==
    /\ pc[c] = "run"
    /\ op[c] \in {"query_row", "query_map"}
    /\ Return(c, r)
    /\ UNCHANGED engVars
    /\ UNCHANGED bodyVars
    /\ UNCHANGED refVars

RunQuery(c, fail) ==
    /\ mpc[c] = "none"
    /\ RunQueryStep(c, IF fail THEN "sql_err" ELSE "ok")
    /\ UNCHANGED migVars

\* conn.transaction_with_behavior(Immediate | Deferred)
Begin(c, fail) ==
    /\ pc[c] = "begin"
    /\ fail \/ op[c] = "with_read_transaction" \/ WriteLockBlockers(c) = {}
    /\ IF fail
       THEN /\ Return(c, "begin_err")
            /\ UNCHANGED engVars
            /\ UNCHANGED refVars
       ELSE /\ pc' = [pc EXCEPT ![c] = "body"]
            /\ writer' = BeginLock(c)
            /\ IF op[c] = "with_transaction"
               THEN /\ base' = [base EXCEPT ![c] = db]
                    /\ hasSnap' = [hasSnap EXCEPT ![c] = TRUE]
                    /\ baseRef' = [baseRef EXCEPT ![c] = serialDb]
               ELSE UNCHANGED <<base, hasSnap, baseRef>>
            /\ UNCHANGED <<db, log, serialDb>>
            /\ UNCHANGED <<poolVars, op, result, acquired>>
    /\ UNCHANGED bodyVars
    /\ UNCHANGED migVars

\* The body runs a write statement on the transaction. In a Deferred
\* transaction the first write takes the write lock, which the engine grants
\* when no one holds it and the transaction's snapshot is still current.
TxExecuteStep(c, s, fail) ==
    /\ pc[c] = "body"
    /\ nstmt[c] < MaxStmts
    /\ LET holds == writer = c
           canLock == WriteLockBlockers(c) = {} /\ (hasSnap[c] => base[c] = db)
           r == Apply(TxView(c), s)
           ok == ~fail /\ (holds \/ canLock) /\ r.ok
       IN /\ fail \/ holds \/ canLock \/ (hasSnap[c] /\ base[c] # db)
          /\ stmtErr' = [stmtErr EXCEPT ![c] = ~ok]
          /\ IF ok
             THEN /\ writer' = c
                  /\ log' = [log EXCEPT ![c] = Append(@, s)]
                  /\ base' = [base EXCEPT ![c] = IF hasSnap[c] THEN @ ELSE db]
                  /\ baseRef' = [baseRef EXCEPT ![c] = IF hasSnap[c] THEN @ ELSE serialDb]
                  /\ hasSnap' = [hasSnap EXCEPT ![c] = TRUE]
                  /\ wrote' = [wrote EXCEPT ![c] = TRUE]
             ELSE UNCHANGED <<writer, log, base, baseRef, hasSnap, wrote>>
    /\ nstmt' = [nstmt EXCEPT ![c] = @ + 1]
    /\ UNCHANGED <<db, serialDb, bodyRes, ended, endErr>>
    /\ UNCHANGED poolVars
    /\ UNCHANGED callVars

TxExecute(c, s, fail) ==
    /\ mpc[c] = "none"
    /\ TxExecuteStep(c, s, fail)
    /\ UNCHANGED migVars

\* The body runs a query on the transaction: the first read of a Deferred
\* transaction fixes its snapshot.
TxQuery(c) ==
    /\ mpc[c] = "none"
    /\ pc[c] = "body"
    /\ nstmt[c] < MaxStmts
    /\ base' = [base EXCEPT ![c] = IF hasSnap[c] THEN @ ELSE db]
    /\ baseRef' = [baseRef EXCEPT ![c] = IF hasSnap[c] THEN @ ELSE serialDb]
    /\ hasSnap' = [hasSnap EXCEPT ![c] = TRUE]
    /\ nstmt' = [nstmt EXCEPT ![c] = @ + 1]
    /\ stmtErr' = [stmtErr EXCEPT ![c] = FALSE]
    /\ UNCHANGED <<db, writer, log, serialDb, wrote, bodyRes, ended, endErr>>
    /\ UNCHANGED poolVars
    /\ UNCHANGED callVars
    /\ UNCHANGED migVars

\* The body returns; with_transaction commits on Ok and rolls back on Err,
\* with_read_transaction commits on Ok and leaves on Err (`?`); the
\* Transaction and then the PooledConnection are dropped.
TxFinishStep(c, bodyOk, endOk) ==
    /\ pc[c] = "body"
    /\ (bodyOk /\ endOk) => CommitBlockers(c) = {}
    /\ LET explicit == IF ~endOk THEN <<>>
                       ELSE IF bodyOk THEN <<"commit">>
                       ELSE IF op[c] = "with_transaction" THEN <<"rollback">>
                       ELSE <<>>
           evs == explicit \o DropTx(explicit)
       IN /\ ended' = [ended EXCEPT ![c] = evs]
          /\ db' = EndDb(c, evs)
          /\ serialDb' = IF Head(evs) = "commit" THEN ApplyAll(serialDb, log[c]) ELSE serialDb
    /\ bodyRes' = [bodyRes EXCEPT ![c] = IF bodyOk THEN "ok" ELSE "err"]
    /\ endErr' = [endErr EXCEPT ![c] = ~endOk /\ (bodyOk \/ op[c] = "with_transaction")]
    /\ Return(c, TransactionResult(bodyOk, endOk))
    /\ writer' = IF writer = c THEN 0 ELSE writer
    /\ base' = [base EXCEPT ![c] = EmptyDb]
    /\ baseRef' = [baseRef EXCEPT ![c] = EmptyDb]
    /\ hasSnap' = [hasSnap EXCEPT ![c] = FALSE]
    /\ log' = [log EXCEPT ![c] = <<>>]
    /\ nstmt' = [nstmt EXCEPT ![c] = 0]
    /\ stmtErr' = [stmtErr EXCEPT ![c] = FALSE]
    /\ UNCHANGED wrote

\* A body written by a caller may return Ok or Err at any point.
TxFinish(c, bodyOk, endOk) ==
    /\ mpc[c] = "none"
    /\ TxFinishStep(c, bodyOk, endOk)
    /\ UNCHANGED migVars

Next ==
    \/ \E c \in Callers, o \in TxOps \cup PlainOps : Call(c, o)
    \/ \E h \in Handles : AddConnection(h)
    \/ \E c \in Callers : Acquire(c)
    \/ Tick
    \/ \E c \in Callers : Timeout(c)
    \/ \E c \in Callers, s \in WriteStmts, fail \in BOOLEAN : RunExecute(c, s, fail)
    \/ \E c \in Callers, fail \in BOOLEAN : RunQuery(c, fail)
    \/ \E c \in Callers, fail \in BOOLEAN : Begin(c, fail)
    \/ \E c \in Callers, s \in WriteStmts, fail \in BOOLEAN : TxExecute(c, s, fail)
    \/ \E c \in Callers : TxQuery(c)
    \/ \E c \in Callers, bodyOk \in BOOLEAN, endOk \in BOOLEAN : TxFinish(c, bodyOk, endOk)

Spec == Init /\ [][Next]_vars

\* ------------------------------------------------------ MigrationManager
\* Registered migrations as add_migration leaves them: sorted by version.
\* version: the version number; down: down_sql is Some.
Registries ==
    {sq \in UNION {[1..n -> [version : Versions, down : BOOLEAN]] : n \in 1..MaxVersion} :
        \A i \in 1..(Len(sq) - 1) : sq[i].version < sq[i + 1].version}

Targets == {<<>>} \cup {<<t>> : t \in 0..MaxVersion}

MaxOf(S) == IF S = {} THEN 0 ELSE CHOOSE x \in S : \A y \in S : y <= x

Registered == {migrations[i].version : i \in 1..Len(migrations)}

\* self.migrations.iter().map(|m| m.version).max().unwrap_or(0)
LatestVersion == MaxOf(Registered)

Reverse(sq) == [i \in 1..Len(sq) |-> sq[Len(sq) + 1 - i]]

\* migrate_up: filter(version > from && version <= to), in list order
MigrationsToApplyInclusive(from, to) ==
    LET InRange(m) == m.version >= from /\ m.version <= to
    IN SelectSeq(migrations, InRange)
MigrationsToApplyReversed(from, to) ==
    LET InRange(m) == m.version > from /\ m.version <= to
    IN Reverse(SelectSeq(migrations, InRange))
MigrationsToApplyUnbounded(from, to) ==
    LET InRange(m) == m.version > from
    IN SelectSeq(migrations, InRange)
MigrationsToApply(from, to) ==
    LET InRange(m) == m.version > from /\ m.version <= to
    IN SelectSeq(migrations, InRange)

\* migrate_down: filter(version > to && version <= from).rev()
MigrationsToRevertAscending(from, to) ==
    LET InRange(m) == m.version > to /\ m.version <= from
    IN SelectSeq(migrations, InRange)
MigrationsToRevert(from, to) ==
    LET InRange(m) == m.version > to /\ m.version <= from
    IN Reverse(SelectSeq(migrations, InRange))

\* apply_migration's closure: the forward script, then the ledger row
ApplyScriptNoLedger(m) == <<[k |-> "up", a |-> m.version]>>
ApplyScript(m) ==
    <<[k |-> "up", a |-> m.version], [k |-> "ledger_ins", a |-> m.version]>>

\* revert_migration's closure: the reverse script, then the ledger row's delete
RevertScript(m) ==
    <<[k |-> "down", a |-> m.version], [k |-> "ledger_del", a |-> m.version]>>

\* SELECT MAX(version) FROM schema_migrations, as get_current_version maps it
CurrentVersionCount(d) == IF d.ledgerTable THEN Cardinality(d.ledger) ELSE 0
CurrentVersion(d) == IF d.ledgerTable THEN MaxOf(d.ledger) ELSE 0

\* An error returned by query_row / query_map: the context with_context puts
\* on top ("query failed: <sql>", or the pool's context when get_connection
\* failed) and the rusqlite error under it, each as its fragments.
WrapperErrorNoSource(r) ==
    [context |-> IF r = "pool_timeout"
                 THEN <<"cannot get a connection from the pool">>
                 ELSE <<"query failed: ", "SELECT MAX(version) FROM schema_migrations">>,
     cause |-> <<>>]
WrapperError(r) ==
    [context |-> IF r = "pool_timeout"
                 THEN <<"cannot get a connection from the pool">>
                 ELSE <<"query failed: ", "SELECT MAX(version) FROM schema_migrations">>,
     cause |-> IF r = "no_such_table"
               THEN <<"no such table", ": schema_migrations">>
               ELSE IF r = "pool_timeout" THEN <<"timed out waiting for connection">>
               ELSE IF r = "no_rows" THEN <<"Query returned no rows">>
               ELSE <<"disk I/O error">>]

\* anyhow::Error::to_string(): Display prints the outermost context only
\* ("{:#}" would print the causes after it).
ErrToString(e) == e.context

\* str.contains(frag)
Contains(str, frag) == \E i \in 1..Len(str) : str[i] = frag

\* get_current_version: Ok(Some(v)) / Ok(None) -> Ok, Err(e) -> Ok(0) when
\* e.to_string() contains "no such table", else Err(e).
GetCurrentVersionOk(r) ==
    \/ r = "ok"
    \/ Contains(ErrToString(WrapperError(r)), "no such table")

\* The version get_current_version hands back when it returns Ok after
\* query result r on contents d.
GetCurrentVersionValue(r, d) == IF r = "ok" THEN CurrentVersion(d) ELSE 0

\* get_migration_status: what it builds from the current version cur and the
\* applied rows.
MigrationStatus(cur, applied) ==
    [current_version |-> cur,
     latest_version |-> LatestVersion,
     applied_migrations |-> applied,
     pending_migrations |-> {v \in Registered : v > cur},
     available_migrations |-> Len(migrations),
     is_up_to_date |-> (cur = LatestVersion)]

\* One MigrationManager shared by all the callers.
InitMig ==
    /\ InitWrapper
    /\ migrations \in Registries
    /\ owners = Callers

\* The record of calls is kept while one caller alone drives the manager, its
\* calls then following one another.
Recording == Cardinality(owners) = 1

\* migrate() returns r without a further database call; lc is the record of
\* the call so far.
MigReturnRec(c, r, lc) ==
    /\ mpc' = [mpc EXCEPT ![c] = "done"]
    /\ mres' = [mres EXCEPT ![c] = r]
    /\ todo' = [todo EXCEPT ![c] = <<>>]
    /\ script' = [script EXCEPT ![c] = <<>>]
    /\ mdir' = [mdir EXCEPT ![c] = "none"]
    /\ mtarget' = [mtarget EXCEPT ![c] = <<>>]
    /\ mcur' = [mcur EXCEPT ![c] = 0]
    /\ lastCall' = IF Recording THEN [lc EXCEPT !.res = r] ELSE lastCall
    /\ UNCHANGED <<migrations, mop, mstatus, owners, sideVars, prevCall>>
    /\ UNCHANGED poolVars
    /\ UNCHANGED callVars
    /\ UNCHANGED engVars
    /\ UNCHANGED bodyVars
    /\ UNCHANGED refVars

MigReturn(c, r) == MigReturnRec(c, r, lastCall)

\* migrate_up / migrate_down reach the head of lst: apply_migration or
\* revert_migration, each one with_transaction call; a migration without
\* down_sql fails the revert before any transaction. lc is the record of the
\* call so far.
StartStep(c, lst, dir, lc) ==
    LET m == Head(lst) IN
    IF dir = "down" /\ ~m.down
    THEN MigReturnRec(c, "err", [lc EXCEPT !.noDown = TRUE])
    ELSE /\ CallStep(c, "with_transaction")
         /\ mpc' = [mpc EXCEPT ![c] = "step"]
         /\ todo' = [todo EXCEPT ![c] = lst]
         /\ mdir' = [mdir EXCEPT ![c] = dir]
         /\ script' = [script EXCEPT ![c] =
                          IF dir = "up" THEN ApplyScript(m) ELSE RevertScript(m)]
         /\ mtarget' = [mtarget EXCEPT ![c] = <<>>]
         /\ mcur' = [mcur EXCEPT ![c] = 0]
         /\ lastCall' = IF Recording
                        THEN [lc EXCEPT !.tried = Append(@, m.version)]
                        ELSE lastCall
         /\ UNCHANGED <<migrations, mres, mop, mstatus, owners, sideVars, prevCall>>

\* target_version.unwrap_or_else(|| max registered version, or 0)
ResolveTargetZero(t) == IF t = <<>> THEN 0 ELSE t[1]
ResolveTarget(t) == IF t = <<>> THEN LatestVersion ELSE t[1]

\* migrate(target_version) is called: it starts with initialize().
MigrateCall(c, t) ==
    /\ c \in owners
    /\ mpc[c] \in {"none", "done"}
    /\ CallStep(c, "execute")
    /\ mpc' = [mpc EXCEPT ![c] = "init"]
    /\ mop' = [mop EXCEPT ![c] = "migrate"]
    /\ mtarget' = [mtarget EXCEPT ![c] = t]
    /\ mres' = [mres EXCEPT ![c] = "none"]
    /\ mcur' = [mcur EXCEPT ![c] = 0]
    /\ mstatus' = [mstatus EXCEPT ![c] = "none"]
    /\ prevCall' = IF Recording THEN Summary(lastCall) ELSE prevCall
    /\ lastCall' = IF Recording
                   THEN [NoCall EXCEPT !.raw = t, !.target = ResolveTarget(t),
                                       !.from = db, !.res = "none"]
                   ELSE lastCall
    /\ UNCHANGED <<migrations, mdir, todo, script, owners, sideVars>>

\* initialize(): CREATE TABLE IF NOT EXISTS schema_migrations
MigInitialize(c, fail) ==
    /\ mpc[c] = "init"
    /\ RunExecuteStep(c, CreateLedger, fail)
    /\ UNCHANGED migVars

\* initialize()? returned: on Ok go on to get_current_version().
MigAfterInitialize(c) ==
    /\ mpc[c] = "init"
    /\ pc[c] = "idle"
    /\ result[c] # "none"
    /\ IF result[c] = "ok"
       THEN /\ CallStep(c, "query_row")
            /\ mpc' = [mpc EXCEPT ![c] = "version"]
            /\ UNCHANGED <<migrations, mtarget, mcur, mdir, todo, script, mres,
                           mop, mstatus, owners, sideVars, lastCall, prevCall>>
       ELSE MigReturn(c, "err")

\* get_current_version(): the query SELECT MAX(version) FROM schema_migrations
\* runs, inside migrate(), get_migration_status() or called by itself.
MigGetCurrentVersion(c, fail) ==
    /\ mpc[c] \in {"version", "get_version", "status_version"}
    /\ LET r == IF fail THEN "sql_err"
                ELSE IF db.ledgerTable THEN "ok" ELSE "no_such_table"
       IN /\ RunQueryStep(c, r)
          /\ mcur' = [mcur EXCEPT ![c] = GetCurrentVersionValue(r, db)]
    /\ UNCHANGED <<migrations, mpc, mtarget, mdir, todo, script, mres, mop,
                   mstatus, owners, sideVars, lastCall, prevCall>>

\* migrate(): target resolved, current compared, first step started.
MigPlan(c) ==
    /\ mpc[c] = "version"
    /\ pc[c] = "idle"
    /\ result[c] # "none"
    /\ IF ~GetCurrentVersionOk(result[c])
       THEN MigReturn(c, "err")
       ELSE LET target == ResolveTarget(mtarget[c])
                cur == mcur[c]
                dir == IF cur < target THEN "up" ELSE "down"
                lst == IF cur < target THEN MigrationsToApply(cur, target)
                       ELSE MigrationsToRevert(cur, target)
                lc == [lastCall EXCEPT !.cur = cur]
            IN IF cur = target \/ lst = <<>>
               THEN MigReturnRec(c, "ok", lc)
               ELSE StartStep(c, lst, dir, lc)

\* The closure of apply_migration / revert_migration runs its next statement.
MigTxStep(c, fail) ==
    /\ mpc[c] = "step"
    /\ script[c] # <<>>
    /\ ~stmtErr[c]
    /\ TxExecuteStep(c, Head(script[c]), fail)
    /\ script' = [script EXCEPT ![c] = Tail(@)]
    /\ UNCHANGED <<migrations, mpc, mtarget, mcur, mdir, todo, mres, mop,
                   mstatus, owners, sideVars, lastCall, prevCall>>

\* The closure returns: Err at the first failing statement (`?`), else Ok.
MigTxFinish(c, endOk) ==
    /\ mpc[c] = "step"
    /\ stmtErr[c] \/ script[c] = <<>>
    /\ TxFinishStep(c, ~stmtErr[c], endOk)
    /\ script' = [script EXCEPT ![c] = <<>>]
    /\ lastCall' = IF Recording /\ ~stmtErr[c] /\ endOk
                   THEN [lastCall EXCEPT !.done = Append(@, Head(todo[c]).version)]
                   ELSE lastCall
    /\ UNCHANGED <<migrations, mpc, mtarget, mcur, mdir, todo, mres, mop,
                   mstatus, owners, sideVars, prevCall>>

\* apply_migration()? / revert_migration()? returned: next one, or done.
MigAfterStepRetry(c) ==
    /\ mpc[c] = "step"
    /\ pc[c] = "idle"
    /\ result[c] # "none"
    /\ IF result[c] # "ok"
       THEN StartStep(c, todo[c], mdir[c], lastCall)
       ELSE IF Tail(todo[c]) = <<>>
            THEN MigReturn(c, "ok")
            ELSE StartStep(c, Tail(todo[c]), mdir[c], lastCall)
MigAfterStep(c) ==
    /\ mpc[c] = "step"
    /\ pc[c] = "idle"
    /\ result[c] # "none"
    /\ IF result[c] # "ok"
       THEN MigReturn(c, "err")
       ELSE IF Tail(todo[c]) = <<>>
            THEN MigReturn(c, "ok")
            ELSE StartStep(c, Tail(todo[c]), mdir[c], lastCall)

NextMig ==
    \/ \E c \in Callers, t \in Targets : MigrateCall(c, t)
    \/ \E h \in Handles : AddConnection(h)
    \/ \E c \in Callers : Acquire(c)
    \/ Tick
    \/ \E c \in Callers : Timeout(c)
    \/ \E c \in Callers, fail \in BOOLEAN : MigInitialize(c, fail)
    \/ \E c \in Callers : MigAfterInitialize(c)
    \/ \E c \in Callers, fail \in BOOLEAN : MigGetCurrentVersion(c, fail)
    \/ \E c \in Callers : MigPlan(c)
    \/ \E c \in Callers, fail \in BOOLEAN : Begin(c, fail)
    \/ \E c \in Callers, fail \in BOOLEAN : MigTxStep(c, fail)
    \/ \E c \in Callers, endOk \in BOOLEAN : MigTxFinish(c, endOk)
    \/ \E c \in Callers : MigAfterStep(c)

SpecMig == InitMig /\ [][NextMig]_vars

\* ------------------------------------- one thread driving the manager
\* A manager call other than migrate() starts: its first wrapper operation o.
ManagerCall(c, o, name, at) ==
    /\ c \in owners
    /\ mpc[c] \in {"none", "done"}
    /\ CallStep(c, o)
    /\ mpc' = [mpc EXCEPT ![c] = at]
    /\ mop' = [mop EXCEPT ![c] = name]
    /\ mres' = [mres EXCEPT ![c] = "none"]
    /\ mcur' = [mcur EXCEPT ![c] = 0]
    /\ mstatus' = [mstatus EXCEPT ![c] = "none"]
    /\ UNCHANGED <<migrations, mtarget, mdir, todo, script, owners, sideVars, lastCall,
                   prevCall>>

\* A manager call other than migrate() returns r, with status st.
ManagerReturn(c, r, st) ==
    /\ mpc' = [mpc EXCEPT ![c] = "done"]
    /\ mres' = [mres EXCEPT ![c] = r]
    /\ mstatus' = [mstatus EXCEPT ![c] = st]
    /\ UNCHANGED <<migrations, mtarget, mcur, mdir, todo, script, mop, owners, sideVars,
                   lastCall, prevCall>>
    /\ UNCHANGED poolVars
    /\ UNCHANGED callVars
    /\ UNCHANGED engVars
    /\ UNCHANGED bodyVars
    /\ UNCHANGED refVars

\* get_current_version() is called by itself.
GetCurrentVersionCall(c) == ManagerCall(c, "query_row", "get_current_version", "get_version")

\* get_current_version() returns Ok(mcur) or Err.
GetCurrentVersionReturn(c) ==
    /\ mpc[c] = "get_version"
    /\ pc[c] = "idle"
    /\ result[c] # "none"
    /\ ManagerReturn(c, IF GetCurrentVersionOk(result[c]) THEN "ok" ELSE "err", "none")

\* get_migration_status() is called: it starts with get_current_version().
StatusCall(c) == ManagerCall(c, "query_row", "get_migration_status", "status_version")

\* get_current_version()? returned inside get_migration_status(): on Ok go on
\* to get_applied_migrations().
StatusAfterVersion(c) ==
    /\ mpc[c] = "status_version"
    /\ pc[c] = "idle"
    /\ result[c] # "none"
    /\ IF GetCurrentVersionOk(result[c])
       THEN /\ CallStep(c, "query_map")
            /\ mpc' = [mpc EXCEPT ![c] = "status_applied"]
            /\ UNCHANGED <<migrations, mtarget, mcur, mdir, todo, script, mres,
                           mop, mstatus, owners, sideVars, lastCall, prevCall>>
       ELSE ManagerReturn(c, "err", "none")

\* get_applied_migrations(): SELECT ... FROM schema_migrations ORDER BY version
\* through query_map; the rows read are kept for the status.
StatusApplied(c, fail) ==
    /\ mpc[c] = "status_applied"
    /\ LET r == IF fail THEN "sql_err"
                ELSE IF db.ledgerTable THEN "ok" ELSE "no_such_table"
       IN /\ RunQueryStep(c, r)
          /\ mstatus' = [mstatus EXCEPT ![c] =
                            IF r = "ok" THEN MigrationStatus(mcur[c], db.ledger)
                            ELSE "none"]
    /\ UNCHANGED <<migrations, mpc, mtarget, mcur, mdir, todo, script, mres,
                   mop, owners, sideVars, lastCall, prevCall>>

\* get_applied_migrations()? returned: the status is built and returned.
StatusReturn(c) ==
    /\ mpc[c] = "status_applied"
    /\ pc[c] = "idle"
    /\ result[c] # "none"
    /\ ManagerReturn(c, IF result[c] = "ok" THEN "ok" ELSE "err", mstatus[c])

\* One caller owns the manager; the others use the wrapper for queries.
InitSeq ==
    /\ InitWrapper
    /\ migrations \in Registries
    /\ owners = {1}

NextSeq ==
    \/ \E c \in Callers, t \in Targets : MigrateCall(c, t)
    \/ \E c \in Callers : GetCurrentVersionCall(c)
    \/ \E c \in Callers : StatusCall(c)
    \/ \E c \in Callers \ owners : Call(c, "query_row")
    \/ \E h \in Handles : AddConnection(h)
    \/ \E c \in Callers : Acquire(c)
    \/ Tick
    \/ \E c \in Callers : Timeout(c)
    \/ \E c \in Callers, fail \in BOOLEAN : RunQuery(c, fail)
    \/ \E c \in Callers, fail \in BOOLEAN : MigInitialize(c, fail)
    \/ \E c \in Callers : MigAfterInitialize(c)
    \/ \E c \in Callers, fail \in BOOLEAN : MigGetCurrentVersion(c, fail)
    \/ \E c \in Callers : MigPlan(c)
    \/ \E c \in Callers, fail \in BOOLEAN : Begin(c, fail)
    \/ \E c \in Callers, fail \in BOOLEAN : MigTxStep(c, fail)
    \/ \E c \in Callers, endOk \in BOOLEAN : MigTxFinish(c, endOk)
    \/ \E c \in Callers : MigAfterStep(c)
    \/ \E c \in Callers : GetCurrentVersionReturn(c)
    \/ \E c \in Callers : StatusAfterVersion(c)
    \/ \E c \in Callers, fail \in BOOLEAN : StatusApplied(c, fail)
    \/ \E c \in Callers : StatusReturn(c)

SpecSeq == InitSeq /\ [][NextSeq]_vars

\* --------------------------- several threads driving the manager, no fault
\* The callers share the manager and call migrate() and
\* get_migration_status() at will; no statement fails for an outside reason.
NextShared ==
    \/ \E c \in Callers, t \in Targets : MigrateCall(c, t)
    \/ \E c \in Callers : StatusCall(c)
    \/ \E h \in Handles : AddConnection(h)
    \/ \E c \in Callers : Acquire(c)
    \/ Tick
    \/ \E c \in Callers : Timeout(c)
    \/ \E c \in Callers : MigInitialize(c, FALSE)
    \/ \E c \in Callers : MigAfterInitialize(c)
    \/ \E c \in Callers : MigGetCurrentVersion(c, FALSE)
    \/ \E c \in Callers : MigPlan(c)
    \/ \E c \in Callers : Begin(c, FALSE)
    \/ \E c \in Callers : MigTxStep(c, FALSE)
    \/ \E c \in Callers : MigTxFinish(c, TRUE)
    \/ \E c \in Callers : MigAfterStep(c)
    \/ \E c \in Callers : StatusAfterVersion(c)
    \/ \E c \in Callers : StatusApplied(c, FALSE)
    \/ \E c \in Callers : StatusReturn(c)

SpecShared == InitMig /\ [][NextShared]_vars

\* ------------------------------------------------- DatabaseHealthChecker
Held == {c \in Callers : conn[c] # 0}

\* pool.get_stats(): active, idle, capacity
GetStats ==
    [connections |-> Cardinality(Held),
     idle_connections |-> Cardinality(idle),
     max_connections |-> capacity]

\* (connections as f64 / max as f64) * 100.0, as its whole percents: the
\* comparisons made with it (< 90.0, with 0) do not see the fraction.
Utilization(connections, max) == (connections * 100) \div max

\* get_pool_status(): r2d2's state().connections counts every connection the
\* pool manages, idle or checked out.
GetPoolStatusIdle ==
    [healthy |-> Cardinality(Established) > 0,
     total_connections |-> PoolMaxSize,
     active_connections |-> Cardinality(idle),
     idle_connections |-> Cardinality(idle),
     utilization_percentage |-> Utilization(Cardinality(idle), PoolMaxSize)]
GetPoolStatus ==
    [healthy |-> Cardinality(Established) > 0,
     total_connections |-> PoolMaxSize,
     active_connections |-> Cardinality(Established),
     idle_connections |-> Cardinality(idle),
     utilization_percentage |-> Utilization(Cardinality(Established), PoolMaxSize)]

\* Page counts around the size limit at the default page size.
PageCounts ==
    {1, (MaxDbSizeMb * BytesPerMb) \div DefaultPageSize - 1,
        (MaxDbSizeMb * BytesPerMb) \div DefaultPageSize}

PageSizes == {DefaultPageSize \div 2, DefaultPageSize}

\* Positions of check_health (and "get_health") at which a query is under way.
QuerySteps ==
    {"pool", "basic", "integrity", "performance", "page_count", "page_size",
     "get_health"}

\* What the query made at a position can return.
ValuesAt(step) ==
    CASE step = "integrity" -> {"ok", "corrupt"}
      [] step = "performance" -> {0}
      [] step = "page_count" -> PageCounts
      [] step = "page_size" -> PageSizes
      [] OTHER -> {1}

\* start_time.elapsed().as_millis(): whole milliseconds a query can take.
DurationsAt(step) ==
    IF step = "performance" THEN {0, SlowQueryMs - 1, SlowQueryMs} ELSE {0}

\* What a fresh, small, sound file returns.
Benign(step, val) ==
    CASE step = "integrity" -> val = "ok"
      [] step = "page_count" -> val = 1
      [] OTHER -> TRUE

\* check_basic_connection: the HealthCheck built from the query result r
\* (value val, duration d); raw keeps r.
BasicConnectionCheck(r, val, d) ==
    IF r = "ok"
    THEN [name |-> "basic", passed |-> (val = 1), duration_ms |-> d,
          error |-> "none", raw |-> r]
    ELSE [name |-> "basic", passed |-> FALSE, duration_ms |-> d,
          error |-> r, raw |-> r]

\* check_database_integrity
IntegrityCheckLosesError(r, val, d) ==
    [name |-> "integrity", passed |-> (r = "ok" /\ val = "ok"), duration_ms |-> d,
     error |-> "none", raw |-> r]
IntegrityCheck(r, val, d) ==
    IF r = "ok"
    THEN [name |-> "integrity", passed |-> (val = "ok"), duration_ms |-> d,
          error |-> IF val = "ok" THEN "none" ELSE val, raw |-> r]
    ELSE [name |-> "integrity", passed |-> FALSE, duration_ms |-> d,
          error |-> r, raw |-> r]

\* check_performance
PerformanceCheck(r, val, d) ==
    IF r = "ok"
    THEN [name |-> "performance", passed |-> (d < SlowQueryMs), duration_ms |-> d,
          error |-> IF d < SlowQueryMs THEN "none" ELSE "slow", raw |-> r]
    ELSE [name |-> "performance", passed |-> FALSE, duration_ms |-> d,
          error |-> r, raw |-> r]

\* db_size_mb < 1024.0 with db_size_mb = page_count * page_size / (1024 * 1024)
DiskPassed(count, size) == count * size < MaxDbSizeMb * BytesPerMb

\* check_disk_space: r is the result of PRAGMA page_count, size the page size
\* read or the default.
DiskSpaceCheck(r, count, size, d) ==
    IF r = "ok"
    THEN [name |-> "disk", passed |-> DiskPassed(count, size), duration_ms |-> d,
          error |-> IF DiskPassed(count, size) THEN "none" ELSE "too_large",
          raw |-> r]
    ELSE [name |-> "disk", passed |-> FALSE, duration_ms |-> d,
          error |-> r, raw |-> r]

\* check_health: the results that clear overall_healthy when they fail.
AffectsOverallWithPerformance == {"pool", "basic", "integrity", "performance", "disk"}
AffectsOverallWithoutDisk == {"pool", "basic", "integrity"}
AffectsOverall == {"pool", "basic", "integrity", "disk"}

\* check_health: what follows the position step, whose query returned r and
\* whose check passed or not. check_disk_space asks for the page size only
\* when it got the page count.
NextCheckStopOnFailure(step, r, passed) ==
    IF ~passed THEN "done"
    ELSE CASE step = "pool" -> "basic"
           [] step = "basic" -> "integrity"
           [] step = "integrity" -> "performance"
           [] step = "performance" -> "page_count"
           [] step = "page_count" -> "page_size"
           [] OTHER -> "done"
NextCheck(step, r, passed) ==
    CASE step = "pool" -> "basic"
      [] step = "basic" -> "integrity"
      [] step = "integrity" -> "performance"
      [] step = "performance" -> "page_count"
      [] step = "page_count" -> IF r = "ok" THEN "page_size" ELSE "done"
      [] OTHER -> "done"

\* get_health: the three (name, status, message) checks and their conjunction.
GetHealthChecks(r, status) ==
    <<[name |-> "connection_pool", passed |-> (r = "ok"),
       error |-> IF r = "ok" THEN "none" ELSE r],
      [name |-> "active_connections", passed |-> (status.active_connections > 0),
       error |-> IF status.active_connections > 0 THEN "none" ELSE "no_connection"],
      [name |-> "pool_utilization",
       passed |-> (status.utilization_percentage < UtilizationLimit),
       error |-> IF status.utilization_percentage < UtilizationLimit
                 THEN "none" ELSE "utilization_high"]>>

\* Milliseconds a query_row that ended with r took: d, or the whole
\* connection_timeout when the pool gave no handle.
Elapsed(r, d) == IF r = "pool_timeout" THEN ConnectionTimeout * 1000 ELSE d

\* The check the position step adds to the report rep, its query having
\* returned r with value val after d ms.
CheckAt(rep, step, r, val, d) ==
    CASE step = "basic" -> BasicConnectionCheck(r, val, d)
      [] step = "integrity" -> IntegrityCheck(r, val, d)
      [] step = "performance" -> PerformanceCheck(r, val, d)
      [] step = "page_count" -> DiskSpaceCheck(r, 0, 0, d)
      [] step = "page_size" ->
            DiskSpaceCheck("ok", rep.count,
                           IF r = "ok" THEN val ELSE DefaultPageSize, rep.d)

\* check_health after the query of position step returned: the report so far.
Fold(rep, step, r, val, d) ==
    LET timed == [rep EXCEPT !.response_time_ms = @ + Elapsed(r, d),
                             !.clean = @ /\ r = "ok"]
    IN CASE step = "pool" ->
              [timed EXCEPT !.pool_status.healthy = (r = "ok"),
                            !.healthy = @ /\ (r = "ok" \/ "pool" \notin AffectsOverall)]
         [] step = "get_health" ->
              [timed EXCEPT !.checks = GetHealthChecks(r, rep.pool_status),
                            !.healthy = \A i \in 1..3 :
                                GetHealthChecks(r, rep.pool_status)[i].passed]
         [] step = "page_count" /\ r = "ok" ->
              [timed EXCEPT !.count = val, !.d = d]
         [] OTHER ->
              LET chk == CheckAt(rep, step, r, val, d)
              IN [timed EXCEPT
                    !.checks = Append(@, chk),
                    !.healthy = @ /\ (chk.passed \/ chk.name \notin AffectsOverall),
                    !.error = IF chk.name = "basic" /\ ~chk.passed
                              THEN chk.error ELSE @]

\* What the health actions leave alone.
HealthFrame ==
    UNCHANGED <<migrations, mpc, mtarget, mcur, mdir, todo, script, mres, mop,
                mstatus, owners, lastCall, prevCall, regOrder, stmt, got, file,
                boot>>

NoValue == [val |-> 0, d |-> 0]

\* check_health() is called: check_pool_health takes the stats and, the
\* utilization being under the limit, probes the pool (pool.health_check());
\* otherwise the pool is unhealthy and check_basic_connection comes next.
HealthCall(c) ==
    /\ mpc[c] = "none"
    /\ hpc[c] \in {"none", "done"}
    /\ LET util == Utilization(GetStats.connections, GetStats.max_connections)
           under == util < UtilizationLimit
       IN /\ CallStep(c, IF under THEN "health_check" ELSE "query_row")
          /\ hpc' = [hpc EXCEPT ![c] = IF under THEN "pool" ELSE "basic"]
          /\ report' = [report EXCEPT ![c] =
                [kind |-> "check_health",
                 pool_status |-> [stats |-> GetStats, healthy |-> FALSE,
                                  utilization_percentage |-> util],
                 checks |-> <<>>,
                 healthy |-> (under \/ "pool" \notin AffectsOverall),
                 error |-> "none",
                 response_time_ms |-> 0,
                 last |-> NoValue, count |-> 0, d |-> 0,
                 held |-> Cardinality(Held),
                 clean |-> (Held = {})]]
    /\ HealthFrame

\* get_health() is called: get_pool_status(), then pool.health_check().
GetHealthCall(c) ==
    /\ mpc[c] = "none"
    /\ hpc[c] \in {"none", "done"}
    /\ CallStep(c, "health_check")
    /\ hpc' = [hpc EXCEPT ![c] = "get_health"]
    /\ report' = [report EXCEPT ![c] =
          [kind |-> "get_health",
           pool_status |-> GetPoolStatus,
           checks |-> <<>>,
           healthy |-> TRUE,
           error |-> "none",
           response_time_ms |-> 0,
           last |-> NoValue, count |-> 0, d |-> 0,
           held |-> Cardinality(Held),
           clean |-> (Held = {})]]
    /\ HealthFrame

\* The query of the current position runs on the handle and returns: Err when
\* the engine fails, else Ok(val) after d ms. The handle goes back to the pool.
HealthQuery(c, fail, val, d) ==
    /\ hpc[c] \in QuerySteps
    /\ pc[c] = "run"
    /\ val \in ValuesAt(hpc[c])
    /\ d \in DurationsAt(hpc[c])
    /\ Return(c, IF fail THEN "sql_err" ELSE "ok")
    /\ report' = [report EXCEPT ![c].last = [val |-> val, d |-> d],
                                ![c].clean = @ /\ ~fail /\ Benign(hpc[c], val)]
    /\ UNCHANGED hpc
    /\ UNCHANGED engVars
    /\ UNCHANGED bodyVars
    /\ UNCHANGED refVars
    /\ HealthFrame

\* The query (or the acquire before it) has returned: its outcome goes into
\* the report and the next check starts, or the report is returned.
HealthAdvance(c) ==
    /\ hpc[c] \in QuerySteps
    /\ pc[c] = "idle"
    /\ result[c] # "none"
    /\ LET r == result[c]
           rep == Fold(report[c], hpc[c], r, report[c].last.val, report[c].last.d)
           passed == IF hpc[c] = "pool" THEN r = "ok"
                     ELSE IF hpc[c] \in {"get_health", "page_count"} THEN TRUE
                     ELSE rep.checks[Len(rep.checks)].passed
           next == NextCheck(hpc[c], r, passed)
       IN /\ report' = [report EXCEPT ![c] = [rep EXCEPT !.last = NoValue]]
          /\ hpc' = [hpc EXCEPT ![c] = next]
          /\ IF next = "done"
             THEN /\ UNCHANGED poolVars
                  /\ UNCHANGED callVars
                  /\ UNCHANGED engVars
                  /\ UNCHANGED bodyVars
                  /\ UNCHANGED refVars
             ELSE CallStep(c, "query_row")
    /\ HealthFrame

\* The caller that asks for health reports; the others use the pool.
Checkers == {1}

NextHealth ==
    \/ \E c \in Checkers : HealthCall(c)
    \/ \E c \in Checkers : GetHealthCall(c)
    \/ \E c \in Callers \ Checkers : Call(c, "query_row")
    \/ \E c \in Callers \ Checkers, fail \in BOOLEAN : RunQuery(c, fail)
    \/ \E h \in Handles : AddConnection(h)
    \/ \E c \in Callers : Acquire(c)
    \/ Tick
    \/ \E c \in Callers : Timeout(c)
    \/ \E c \in Callers, fail \in BOOLEAN :
          \E val \in ValuesAt(hpc[c]), d \in DurationsAt(hpc[c]) :
              HealthQuery(c, fail, val, d)
    \/ \E c \in Callers : HealthAdvance(c)

SpecHealth == Init /\ [][NextHealth]_vars

\* ------------------------------------------------ registering migrations
MigrationValues == [version : Versions, down : BOOLEAN]

\* Where a stable sort by version puts m in the sorted list sq: after the
\* migrations whose version is not larger.
InsertByKey(sq, m) ==
    LET k == Cardinality({i \in 1..Len(sq) : sq[i].version <= m.version})
    IN SubSeq(sq, 1, k) \o <<m>> \o SubSeq(sq, k + 1, Len(sq))

\* self.migrations.sort_by_key(|m| m.version): a stable sort
RECURSIVE SortByKey(_)
SortByKeyNone(sq) == sq
SortByKey(sq) ==
    IF sq = <<>> THEN <<>>
    ELSE InsertByKey(SortByKey(SubSeq(sq, 1, Len(sq) - 1)), sq[Len(sq)])

\* What registering leaves alone: the pool, the file and every call state.
RegisterFrame ==
    /\ UNCHANGED <<mpc, mtarget, mcur, mdir, todo, script, mres, mop, mstatus,
                   owners, lastCall, prevCall, hpc, report, stmt, got, file,
                   boot>>
    /\ UNCHANGED poolVars
    /\ UNCHANGED callVars
    /\ UNCHANGED engVars
    /\ UNCHANGED bodyVars
    /\ UNCHANGED refVars

\* add_migration(migration): push, then sort by version
AddMigration(m) ==
    /\ Len(migrations) < MaxRegistered
    /\ migrations' = SortByKey(Append(migrations, m))
    /\ regOrder' = Append(regOrder, m.version)
    /\ RegisterFrame

\* add_migrations(vec): extend, then sort by version
AddMigrations(ms) ==
    /\ Len(migrations) + Len(ms) <= MaxRegistered
    /\ migrations' = SortByKey(migrations \o ms)
    /\ regOrder' = regOrder \o [i \in 1..Len(ms) |-> ms[i].version]
    /\ RegisterFrame

NextReg ==
    \/ \E m \in MigrationValues : AddMigration(m)
    \/ \E m1, m2 \in MigrationValues : AddMigrations(<<m1, m2>>)

SpecReg == Init /\ [][NextReg]_vars

\* ------------------------------------------------ query_row by key
\* Ok(value): no error.
NoError == [context |-> <<>>, cause |-> <<>>]

\* query_row(sql, [a], f) is called with a statement selecting the row of key a.
QueryRowCall(c, a) ==
    /\ mpc[c] = "none"
    /\ hpc[c] \in {"none", "query"}
    /\ CallStep(c, "query_row")
    /\ hpc' = [hpc EXCEPT ![c] = "query"]
    /\ report' = [report EXCEPT ![c] =
          [kind |-> "query_row", key |-> a, done |-> FALSE, failed |-> FALSE,
           rows |-> 0, error |-> NoError]]
    /\ HealthFrame

\* conn.query_row(sql, params, f).with_context(..)?: the statement fails, or
\* finds no row (QueryReturnedNoRows), or its first row goes to f.
QueryRowRun(c, fail) ==
    /\ hpc[c] = "query"
    /\ ~report[c].done
    /\ LET n == Cardinality({report[c].key} \cap db.rows)
           r == IF fail THEN "sql_err" ELSE IF n = 0 THEN "no_rows" ELSE "ok"
       IN /\ RunQueryStep(c, r)
          /\ report' = [report EXCEPT ![c].done = TRUE, ![c].failed = fail,
                                      ![c].rows = n,
                                      ![c].error = IF r = "ok" THEN NoError
                                                   ELSE WrapperError(r)]
    /\ UNCHANGED hpc
    /\ HealthFrame

NextQuery ==
    \/ \E c \in Callers : Call(c, "execute")
    \/ \E c \in Callers, s \in WriteStmts, fail \in BOOLEAN : RunExecute(c, s, fail)
    \/ \E c \in Callers, a \in Rows : QueryRowCall(c, a)
    \/ \E c \in Callers, fail \in BOOLEAN : QueryRowRun(c, fail)
    \/ \E h \in Handles : AddConnection(h)
    \/ \E c \in Callers : Acquire(c)
    \/ Tick
    \/ \E c \in Callers : Timeout(c)

SpecQuery == Init /\ [][NextQuery]_vars

\* ------------------------------------------------- DatabaseManager::new
\* The tables initialize_database creates.
InitTables == {"customers", "tasks", "quotes"}

\* initialize_database: PRAGMA foreign_keys = ON, three CREATE TABLE IF NOT
\* EXISTS, then create_indexes, every statement in autocommit mode.
InitScript ==
    <<[k |-> "pragma", a |-> "foreign_keys"],
      [k |-> "create_table", a |-> "customers"],
      [k |-> "create_table", a |-> "tasks"],
      [k |-> "create_table", a |-> "quotes"],
      [k |-> "create_index", a |-> "indexes"]>>

\* The thread that constructs the DatabaseManager.
BootCaller == 1

\* The process has started; DatabaseManager::new has not been called, there is
\* no pool and no storage file.
NotBooted == [pc |-> "start", is_new_database |-> FALSE, res |-> "none"]

InitBoot ==
    /\ capacity \in 1..MaxCapacity
    /\ idle = {}
    /\ conn = [c \in Callers |-> 0]
    /\ waited = [c \in Callers |-> 0]
    /\ op = [c \in Callers |-> "none"]
    /\ pc = [c \in Callers |-> "idle"]
    /\ result = [c \in Callers |-> "none"]
    /\ acquired = [c \in Callers |-> 0]
    /\ db = EmptyDb
    /\ writer = 0
    /\ base = [c \in Callers |-> EmptyDb]
    /\ hasSnap = [c \in Callers |-> FALSE]
    /\ log = [c \in Callers |-> <<>>]
    /\ nstmt = [c \in Callers |-> 0]
    /\ wrote = [c \in Callers |-> FALSE]
    /\ bodyRes = [c \in Callers |-> "none"]
    /\ ended = [c \in Callers |-> <<>>]
    /\ endErr = [c \in Callers |-> FALSE]
    /\ serialDb = EmptyDb
    /\ baseRef = [c \in Callers |-> EmptyDb]
    /\ stmtErr = [c \in Callers |-> FALSE]
    /\ mpc = [c \in Callers |-> "none"]
    /\ mtarget = [c \in Callers |-> <<>>]
    /\ mcur = [c \in Callers |-> 0]
    /\ mdir = [c \in Callers |-> "none"]
    /\ todo = [c \in Callers |-> <<>>]
    /\ script = [c \in Callers |-> <<>>]
    /\ mres = [c \in Callers |-> "none"]
    /\ mop = [c \in Callers |-> "none"]
    /\ mstatus = [c \in Callers |-> "none"]
    /\ lastCall = NoCall
    /\ prevCall = Summary(NoCall)
    /\ regOrder = <<>>
    /\ hpc = [c \in Callers |-> "none"]
    /\ report = [c \in Callers |-> [kind |-> "none"]]
    /\ stmt = [h \in Handles |-> 0]
    /\ got = [c \in Callers |-> 0]
    /\ file = FALSE
    /\ boot = NotBooted

\* What DatabaseManager::new leaves alone.
BootFrame ==
    UNCHANGED <<migrations, mpc, mtarget, mcur, mdir, todo, mres, mop, mstatus,
                owners, lastCall, prevCall, regOrder, hpc, report, stmt, got>>

\* The pool exists: build returned it and new has not dropped it.
PoolBuilt == boot.pc # "start" /\ boot.res # "err"

\* new returns Err: the pool, if built, goes out of scope with its connections.
BootFail ==
    /\ boot' = [boot EXCEPT !.pc = "done", !.res = "err"]
    /\ idle' = {}
    /\ script' = [script EXCEPT ![BootCaller] = <<>>]
    /\ UNCHANGED <<capacity, conn, waited, file>>
    /\ UNCHANGED callVars
    /\ UNCHANGED engVars
    /\ UNCHANGED bodyVars
    /\ UNCHANGED refVars

\* new(): is_new_database = !db_path.exists(); then Pool::builder().build(manager)
\* opens the first connection, which creates the file when it is absent.
BootBuild(fail) ==
    /\ boot.pc = "start"
    /\ IF fail
       THEN BootFail
       ELSE /\ boot' = [boot EXCEPT !.pc = "build", !.is_new_database = ~file]
            /\ idle' = {1}
            /\ file' = TRUE
            /\ UNCHANGED <<capacity, conn, waited, script>>
            /\ UNCHANGED callVars
            /\ UNCHANGED engVars
            /\ UNCHANGED bodyVars
            /\ UNCHANGED refVars
    /\ BootFrame

\* DatabasePoolBuilder::build: pool.get() for the connection test.
BootProbeCall ==
    /\ boot.pc = "build"
    /\ CallStep(BootCaller, "probe")
    /\ boot' = [boot EXCEPT !.pc = "probe"]
    /\ UNCHANGED <<file, script>>
    /\ BootFrame

\* The connection test of build (SELECT 1) or pool.health_check() of new runs
\* on the handle; the handle is dropped.
BootQuery(fail) ==
    /\ boot.pc \in {"probe", "health"}
    /\ pc[BootCaller] = "run"
    /\ Return(BootCaller, IF fail THEN "sql_err" ELSE "ok")
    /\ UNCHANGED <<boot, file, script>>
    /\ UNCHANGED engVars
    /\ UNCHANGED bodyVars
    /\ UNCHANGED refVars
    /\ BootFrame

\* initialize_database: the next statement runs and commits by itself; at the
\* first Err (`?`) and after the last statement conn is dropped.
BootInitStep(fail) ==
    /\ boot.pc = "init"
    /\ pc[BootCaller] = "run"
    /\ IF fail \/ script[BootCaller] = <<>>
       THEN /\ Return(BootCaller, IF fail THEN "sql_err" ELSE "ok")
            /\ UNCHANGED <<db, serialDb, script>>
       ELSE /\ db' = Apply(db, Head(script[BootCaller])).db
            /\ serialDb' = Apply(serialDb, Head(script[BootCaller])).db
            /\ script' = [script EXCEPT ![BootCaller] = Tail(@)]
            /\ UNCHANGED poolVars
            /\ UNCHANGED callVars
    /\ UNCHANGED <<writer, base, hasSnap, log, baseRef, boot, file>>
    /\ UNCHANGED bodyVars
    /\ BootFrame

\* A step of new has returned: `?` ends new at an Err; after the connection
\* test initialize_database runs if is_new_database, then pool.health_check(),
\* then Ok(manager).
BootAdvance ==
    /\ boot.pc \in {"probe", "init", "health"}
    /\ pc[BootCaller] = "idle"
    /\ result[BootCaller] # "none"
    /\ IF result[BootCaller] # "ok"
       THEN BootFail
       ELSE IF boot.pc = "health"
       THEN /\ boot' = [boot EXCEPT !.pc = "done", !.res = "ok"]
            /\ UNCHANGED <<file, script>>
            /\ UNCHANGED poolVars
            /\ UNCHANGED callVars
            /\ UNCHANGED engVars
            /\ UNCHANGED bodyVars
            /\ UNCHANGED refVars
       ELSE IF boot.pc = "probe" /\ boot.is_new_database
       THEN /\ CallStep(BootCaller, "initialize_database")
            /\ boot' = [boot EXCEPT !.pc = "init"]
            /\ script' = [script EXCEPT ![BootCaller] = InitScript]
            /\ UNCHANGED file
       ELSE /\ CallStep(BootCaller, "health_check")
            /\ boot' = [boot EXCEPT !.pc = "health"]
            /\ UNCHANGED <<file, script>>
    /\ BootFrame

\* The process ends and a new one starts on the same path: the pool is gone,
\* the file stays as it is.
Restart ==
    /\ boot.pc = "done"
    /\ \A c \in Callers : pc[c] = "idle"
    /\ boot' = NotBooted
    /\ idle' = {}
    /\ op' = [c \in Callers |-> "none"]
    /\ result' = [c \in Callers |-> "none"]
    /\ acquired' = [c \in Callers |-> 0]
    /\ UNCHANGED <<capacity, conn, waited, pc, file, script>>
    /\ UNCHANGED engVars
    /\ UNCHANGED bodyVars
    /\ UNCHANGED refVars
    /\ BootFrame

NextBoot ==
    \/ \E fail \in BOOLEAN : BootBuild(fail)
    \/ BootProbeCall
    \/ \E h \in Handles : PoolBuilt /\ AddConnection(h)
    \/ Acquire(BootCaller)
    \/ \E fail \in BOOLEAN : BootQuery(fail)
    \/ \E fail \in BOOLEAN : BootInitStep(fail)
    \/ BootAdvance
    \/ Restart

\* No migration manager is built on the pool.
InitNew == InitBoot /\ migrations = <<>> /\ owners = {}

SpecBoot == InitNew /\ [][NextBoot]_vars

\* ------------------------------------ one caller using the whole layer
\* new has returned Ok and the caller is between two operations of the layer.
Ready ==
    /\ boot.pc = "done"
    /\ boot.res = "ok"
    /\ hpc[BootCaller] \in {"none", "done"}

\* The migrations the caller's manager has: one with and one without down_sql.
SoloRegistry ==
    <<[version |-> 1, down |-> TRUE], [version |-> MaxVersion, down |-> FALSE]>>

\* Health queries that find a small, sound file.
BenignValues(step) == {v \in ValuesAt(step) : Benign(step, v)}

\* The caller constructs the manager and then calls the operations of the
\* wrapper, the health checkers and the migration manager one after the other;
\* nobody else uses the pool.
NextSolo ==
    \/ \E fail \in BOOLEAN : BootBuild(fail)
    \/ BootProbeCall
    \/ \E fail \in BOOLEAN : BootQuery(fail)
    \/ \E fail \in BOOLEAN : BootInitStep(fail)
    \/ BootAdvance
    \/ Ready /\ mpc[BootCaller] \in {"none", "done"} /\ Restart
    \/ \E h \in Handles : PoolBuilt /\ AddConnection(h)
    \/ Acquire(BootCaller)
    \/ \E o \in TxOps \cup PlainOps : Ready /\ Call(BootCaller, o)
    \/ \E s \in WriteStmts, fail \in BOOLEAN : RunExecute(BootCaller, s, fail)
    \/ \E fail \in BOOLEAN : Ready /\ RunQuery(BootCaller, fail)
    \/ \E fail \in BOOLEAN : Begin(BootCaller, fail)
    \/ \E s \in WriteStmts, fail \in BOOLEAN : TxExecute(BootCaller, s, fail)
    \/ TxQuery(BootCaller)
    \/ \E bodyOk \in BOOLEAN, endOk \in BOOLEAN : TxFinish(BootCaller, bodyOk, endOk)
    \/ Ready /\ HealthCall(BootCaller)
    \/ Ready /\ GetHealthCall(BootCaller)
    \/ \E fail \in BOOLEAN, val \in BenignValues(hpc[BootCaller]) :
          HealthQuery(BootCaller, fail, val, 0)
    \/ HealthAdvance(BootCaller)
    \/ \E t \in Targets : Ready /\ MigrateCall(BootCaller, t)
    \/ Ready /\ GetCurrentVersionCall(BootCaller)
    \/ Ready /\ StatusCall(BootCaller)
    \/ \E fail \in BOOLEAN : MigInitialize(BootCaller, fail)
    \/ MigAfterInitialize(BootCaller)
    \/ \E fail \in BOOLEAN : MigGetCurrentVersion(BootCaller, fail)
    \/ MigPlan(BootCaller)
    \/ \E fail \in BOOLEAN : MigTxStep(BootCaller, fail)
    \/ \E endOk \in BOOLEAN : MigTxFinish(BootCaller, endOk)
    \/ MigAfterStep(BootCaller)
    \/ GetCurrentVersionReturn(BootCaller)
    \/ StatusAfterVersion(BootCaller)
    \/ \E fail \in BOOLEAN : StatusApplied(BootCaller, fail)
    \/ StatusReturn(BootCaller)

\* The manager is built with the registry before DatabaseManager::new runs.
InitSolo == InitBoot /\ migrations = SoloRegistry /\ owners = Callers

SpecSolo == InitSolo /\ [][NextSolo]_vars

\* ------------------------------------------------ tasks sharing the pool
\* What the tasks leave alone.
TaskFrame ==
    UNCHANGED <<migrations, mpc, mtarget, mcur, mdir, todo, script, mres, mop,
                mstatus, owners, lastCall, prevCall, regOrder, hpc, report,
                file, boot>>

\* r2d2 has a connection to open: fewer idle ones than min_idle and fewer in
\* total than max_size.
CanOpen ==
    /\ Handles \ Established # {}
    /\ Cardinality(idle) < MinIdle
    /\ Cardinality(Established) < PoolMaxSize

\* tokio::spawn(async move { let conn = pool_clone.get()?; ... }): task c starts.
TaskSpawn(c) ==
    /\ mpc[c] = "none"
    /\ CallStep(c, "task")
    /\ got' = [got EXCEPT ![c] = 0]
    /\ UNCHANGED stmt
    /\ TaskFrame

\* conn.query_row("SELECT ?1", [i], ...): the statement is prepared on the
\* task's connection and its parameter bound, or the engine fails.
TaskBind(c, fail) ==
    /\ op[c] = "task"
    /\ pc[c] = "run"
    /\ IF fail
       THEN /\ Return(c, "sql_err")
            /\ UNCHANGED stmt
       ELSE /\ stmt' = [stmt EXCEPT ![conn[c]] = c]
            /\ pc' = [pc EXCEPT ![c] = "row"]
            /\ UNCHANGED <<poolVars, op, result, acquired>>
    /\ UNCHANGED got
    /\ UNCHANGED engVars
    /\ UNCHANGED bodyVars
    /\ UNCHANGED refVars
    /\ TaskFrame

\* The row is read from the connection's statement (SELECT ?1 gives the bound
\* value back), the statement is finalized and conn dropped as the task returns.
TaskRow(c) ==
    /\ op[c] = "task"
    /\ pc[c] = "row"
    /\ got' = [got EXCEPT ![c] = stmt[conn[c]]]
    /\ stmt' = [stmt EXCEPT ![conn[c]] = 0]
    /\ Return(c, "ok")
    /\ UNCHANGED engVars
    /\ UNCHANGED bodyVars
    /\ UNCHANGED refVars
    /\ TaskFrame

\* Opening a connection to the local file takes far less than
\* connection_timeout: the time of a blocked pool.get() passes once r2d2 has no
\* connection left to open.
TickAfterOpen ==
    /\ ~CanOpen
    /\ Tick

NextTasks ==
    \/ \E c \in Callers : TaskSpawn(c)
    \/ \E h \in Handles : AddConnection(h)
    \/ \E c \in Callers : Acquire(c)
    \/ TickAfterOpen
    \/ \E c \in Callers : Timeout(c)
    \/ \E c \in Callers, fail \in BOOLEAN : TaskBind(c, fail)
    \/ \E c \in Callers : TaskRow(c)

SpecTasks == Init /\ [][NextTasks]_vars

\* ------------------------------- a manager whose registry grows
\* The thread that owns the manager registers migrations of new versions
\* between its migrate calls (manager = manager.add_migration(m)).
NextGrow ==
    \/ \E m \in MigrationValues :
          /\ \A c \in owners : mpc[c] \in {"none", "done"}
          /\ m.version \notin Registered
          /\ AddMigration(m)
    \/ \E c \in Callers, t \in Targets : MigrateCall(c, t)
    \/ \E h \in Handles : AddConnection(h)
    \/ \E c \in Callers : Acquire(c)
    \/ \E c \in Callers, fail \in BOOLEAN : MigInitialize(c, fail)
    \/ \E c \in Callers : MigAfterInitialize(c)
    \/ \E c \in Callers, fail \in BOOLEAN : MigGetCurrentVersion(c, fail)
    \/ \E c \in Callers : MigPlan(c)
    \/ \E c \in Callers, fail \in BOOLEAN : Begin(c, fail)
    \/ \E c \in Callers, fail \in BOOLEAN : MigTxStep(c, fail)
    \/ \E c \in Callers, endOk \in BOOLEAN : MigTxFinish(c, endOk)
    \/ \E c \in Callers : MigAfterStep(c)

\* MigrationManager::new: an empty registry, owned by one thread.
InitGrow == InitWrapper /\ migrations = <<>> /\ owners = {1}

SpecGrow == InitGrow /\ [][NextGrow]_vars

\* ------------------- a growing registry whose scripts and pool do not fail
\* As NextGrow, with every statement, BEGIN and COMMIT succeeding.
NextTrip ==
    \/ \E m \in MigrationValues :
          /\ \A c \in owners : mpc[c] \in {"none", "done"}
          /\ m.version \notin Registered
          /\ AddMigration(m)
    \/ \E c \in Callers, t \in Targets : MigrateCall(c, t)
    \/ \E h \in Handles : AddConnection(h)
    \/ \E c \in Callers : Acquire(c)
    \/ \E c \in Callers : MigInitialize(c, FALSE)
    \/ \E c \in Callers : MigAfterInitialize(c)
    \/ \E c \in Callers : MigGetCurrentVersion(c, FALSE)
    \/ \E c \in Callers : MigPlan(c)
    \/ \E c \in Callers : Begin(c, FALSE)
    \/ \E c \in Callers : MigTxStep(c, FALSE)
    \/ \E c \in Callers : MigTxFinish(c, TRUE)
    \/ \E c \in Callers : MigAfterStep(c)

SpecTrip == InitGrow /\ [][NextTrip]_vars

\* ------------------------------------------------------------ properties
\* C1: in every reachable state the number of handles checked out of the
\* pool is at most the capacity (max_connections) the pool was built with.
C1_CheckedOutWithinCapacity == Cardinality(Held) <= capacity

C1_Witness ==
    \E c, d \in Callers :
        /\ conn[c] # 0
        /\ pc[d] = "acquire"
        /\ waited[d] > 0
        /\ Cardinality(Held) = capacity

\* C2: a checked-out handle has exactly one owner: no two callers hold the
\* same handle, and a handle that is checked out is not also idle in the pool.
C2_ExclusiveOwnership ==
    /\ \A c, d \in Callers : (c # d /\ conn[c] # 0) => conn[c] # conn[d]
    /\ \A c \in Callers : conn[c] \notin idle

C2_Witness ==
    \E c, d \in Callers :
        /\ c # d
        /\ pc[c] = "body"
        /\ pc[d] = "body"
        /\ conn[c] # 0
        /\ conn[d] # 0

\* C3: a wrapper operation holds a handle only between its get_connection()
\* and its return; it obtains exactly one handle (none when get_connection()
\* itself failed) and holds none once it has returned, whatever the outcome.
C3_HandleReleasedOnReturn ==
    \A c \in Callers :
        /\ acquired[c] <= 1
        /\ pc[c] \in {"idle", "acquire"} => conn[c] = 0
        /\ (pc[c] = "idle" /\ result[c] # "none") =>
              acquired[c] = (IF result[c] = "pool_timeout" THEN 0 ELSE 1)

C3_Witness ==
    \E c \in Callers :
        /\ pc[c] = "idle"
        /\ op[c] = "with_transaction"
        /\ result[c] = "commit_err"
        /\ conn[c] = 0
        /\ conn[c] \notin idle

\* C4: a caller blocked in acquire never waits longer than the configured
\* timeout, and a caller that failed with the pool-timeout error failed exactly
\* when its timeout elapsed, holding nothing, however long holders keep theirs.
C4_AcquireTimeout ==
    \A c \in Callers :
        /\ pc[c] = "acquire" => waited[c] <= ConnectionTimeout
        /\ result[c] = "pool_timeout" =>
              /\ waited[c] = ConnectionTimeout
              /\ conn[c] = 0
              /\ acquired[c] = 0

C4_Witness ==
    \E a, b \in Callers :
        /\ capacity = 1
        /\ pc[a] = "body"
        /\ op[a] = "with_transaction"
        /\ conn[a] # 0
        /\ pc[b] = "idle"
        /\ result[b] = "pool_timeout"

\* C5: a with_transaction call that began a transaction ends it by exactly one
\* commit or rollback: committed when the body returned Ok and commit worked,
\* rolled back otherwise; a body error is returned as is, also when the
\* rollback reports an error.
C5_CommitXorRollback ==
    \A c \in Callers :
        (pc[c] = "idle" /\ op[c] = "with_transaction" /\ bodyRes[c] # "none") =>
            /\ Len(ended[c]) = 1
            /\ bodyRes[c] = "err" =>
                  (ended[c] = <<"rollback">> /\ result[c] = "body_err")
            /\ bodyRes[c] = "ok" =>
                  \/ (result[c] = "ok" /\ ended[c] = <<"commit">>)
                  \/ (result[c] = "commit_err" /\ ended[c] = <<"rollback">>)

C5_Witness ==
    \E c \in Callers :
        /\ pc[c] = "idle"
        /\ op[c] = "with_transaction"
        /\ bodyRes[c] = "err"
        /\ endErr[c]
        /\ result[c] = "body_err"

\* C6: when the body of with_transaction returns Err, the file contents after
\* the call are the contents the transaction started from: none of the body's
\* writes is persisted.
C6_RollbackCompleteness ==
    [][\A c \in Callers :
          (pc[c] = "body" /\ op[c] = "with_transaction"
              /\ pc'[c] = "idle" /\ bodyRes'[c] = "err") =>
          (db' = base[c] /\ db' = db)]_vars

C6_Witness ==
    \E c \in Callers :
        /\ pc[c] = "idle"
        /\ op[c] = "with_transaction"
        /\ bodyRes[c] = "err"
        /\ wrote[c]

\* C7: a with_read_transaction whose body issued a write statement fails: it
\* never returns Ok after a write of its body went through (a failed call
\* persists nothing, its transaction being rolled back).
C7_ReadTransactionRejectsWrites ==
    \A c \in Callers :
        (op[c] = "with_read_transaction" /\ pc[c] = "idle" /\ wrote[c]) =>
            result[c] # "ok"

\* C8: the file always holds what running the committed transactions one at a
\* time, in commit order, produces; every snapshot a caller reads from was
\* such a state when it was taken, and a writer's base is the current file.
C8_Serialized ==
    /\ db = serialDb
    /\ \A c \in Callers : hasSnap[c] => base[c] = baseRef[c]
    /\ \A c \in Callers : writer = c => base[c] = db

C8_Witness ==
    \E c, d \in Callers :
        /\ c # d
        /\ pc[c] = "body"
        /\ op[c] = "with_transaction"
        /\ Len(log[c]) = 1
        /\ TxView(c) # db
        /\ pc[d] = "begin"
        /\ op[d] = "with_transaction"
        /\ db.rows # {}

\* C9 as stated: while a read transaction runs, a concurrent transaction call
\* can obtain a handle and begin, for every pool capacity.
C9_ReaderNeverBlocks ==
    \A r, d \in Callers :
        (/\ r # d
         /\ pc[r] = "body"
         /\ op[r] = "with_read_transaction"
         /\ pc[d] = "acquire"
         /\ op[d] \in TxOps) =>
            (idle # {} \/ Cardinality(Established) < capacity)

\* C9 amended: a read transaction that holds no write lock blocks no engine
\* step of another caller that holds a handle: the other caller can begin its
\* transaction and can commit it.
C9_ReaderTakesNoEngineLock ==
    \A r, d \in Callers :
        (/\ r # d
         /\ pc[r] = "body"
         /\ op[r] = "with_read_transaction"
         /\ writer # r) =>
            /\ (pc[d] = "begin" /\ writer = 0) => ENABLED Begin(d, FALSE)
            /\ (pc[d] = "body" /\ op[d] = "with_read_transaction")
                  => ENABLED TxFinish(d, TRUE, TRUE)
            /\ (pc[d] = "body" /\ op[d] = "with_transaction")
                  => ENABLED TxFinish(d, TRUE, TRUE)

C9_Witness ==
    \E r, d \in Callers :
        /\ r # d
        /\ pc[r] = "body"
        /\ op[r] = "with_read_transaction"
        /\ hasSnap[r]
        /\ writer = d
        /\ op[d] = "with_transaction"
        /\ log[d] # <<>>

\* C10: each migration step is all-or-nothing: at all times, so after every
\* apply or revert attempt whatever its outcome, the ledger of the file holds a
\* row for a registered version exactly when the effect of that version's
\* forward script is present in the schema.
C10_StepAllOrNothing ==
    \A v \in Registered : (v \in db.ledger) <=> (v \in db.schema)

C10_Witness ==
    \E c \in Callers :
        /\ mpc[c] = "step"
        /\ pc[c] = "idle"
        /\ result[c] \in {"body_err", "commit_err"}
        /\ wrote[c]
        /\ db.ledger # {}
        /\ db.ledger # Registered

Range(sq) == {sq[i] : i \in 1..Len(sq)}

Ascending(sq) == \A i \in 1..(Len(sq) - 1) : sq[i] < sq[i + 1]

Descending(sq) == \A i \in 1..(Len(sq) - 1) : sq[i] > sq[i + 1]

Between(lo, hi) == {v \in Registered : lo < v /\ v <= hi}

\* C11: after a migrate(None) that succeeded, the next migrate(None) starts no
\* apply and no revert and leaves schema and ledger as they were; when it
\* succeeds the current version is the one the first call left.
C11_MigrateLatestIdempotent ==
    (/\ prevCall.res = "ok"
     /\ prevCall.raw = <<>>
     /\ lastCall.raw = <<>>
     /\ lastCall.res # "never") =>
        /\ lastCall.tried = <<>>
        /\ db.schema = lastCall.from.schema
        /\ db.ledger = lastCall.from.ledger
        /\ lastCall.res = "ok" =>
              /\ CurrentVersion(db) = CurrentVersion(lastCall.from)
              /\ CurrentVersion(db) = LatestVersion

C11_Witness ==
    /\ prevCall.res = "ok"
    /\ prevCall.raw = <<>>
    /\ lastCall.raw = <<>>
    /\ lastCall.res = "ok"
    /\ Len(migrations) = 2
    /\ db.ledger = Registered

C13_UpwardOrder ==
    /\ \A c \in Callers :
          (Recording /\ mpc[c] = "step" /\ mdir[c] = "up") =>
              \A w \in Between(lastCall.cur, Head(todo[c]).version - 1) :
                  w \in db.ledger /\ w \in Range(lastCall.done)
    /\ (lastCall.res = "ok" /\ lastCall.cur < lastCall.target) =>
          /\ lastCall.done = lastCall.tried
          /\ Ascending(lastCall.done)
          /\ Range(lastCall.done) = Between(lastCall.cur, lastCall.target)

C13_Witness ==
    /\ lastCall.res = "ok"
    /\ lastCall.cur = 0
    /\ lastCall.target = 2
    /\ lastCall.done = <<1, 2>>

\* C14: a downward migrate reverts the registered migrations with version in
\* (target, current] in descending order: while one is being reverted every
\* registered one above it up to current is reverted and committed, and a call
\* that succeeded reverted exactly those of the range, descending.
C14_DownwardOrder ==
    /\ \A c \in Callers :
          (Recording /\ mpc[c] = "step" /\ mdir[c] = "down") =>
              \A w \in Between(Head(todo[c]).version, lastCall.cur) :
                  w \notin db.ledger /\ w \in Range(lastCall.done)
    /\ (lastCall.res = "ok" /\ lastCall.cur > lastCall.target) =>
          /\ lastCall.done = lastCall.tried
          /\ Descending(lastCall.done)
          /\ Range(lastCall.done) = Between(lastCall.target, lastCall.cur)

C14_Witness ==
    /\ lastCall.res = "ok"
    /\ lastCall.cur = 2
    /\ lastCall.target = 0
    /\ lastCall.done = <<2, 1>>

\* C15: a downward migrate that stops at a migration without reverse script
\* returns an error and leaves ledger and current version as they were when
\* migrate was called.
C15_MissingDownLeavesVersion ==
    lastCall.noDown =>
        /\ lastCall.res = "err"
        /\ db.ledger = lastCall.from.ledger
        /\ CurrentVersion(db) = CurrentVersion(lastCall.from)

\* C16 as stated: once a migrate call has returned, Ok or Err, every version
\* in the ledger is registered and at or below that call's target.
C16_LedgerWithinTarget ==
    lastCall.res \in {"ok", "err"} =>
        \A v \in db.ledger : v \in Registered /\ v <= lastCall.target

\* C16 amended: every version in the ledger is registered; after a migrate
\* call that returned Ok it is at or below the call's target, after one that
\* returned Err at or below the larger of the target and the version that was
\* current when migrate was called.
C16_LedgerWithinReach ==
    /\ db.ledger \subseteq Registered
    /\ lastCall.res = "ok" => \A v \in db.ledger : v <= lastCall.target
    /\ lastCall.res = "err" =>
          \A v \in db.ledger :
              v <= lastCall.target \/ v <= CurrentVersion(lastCall.from)

C16_Witness ==
    /\ lastCall.res = "err"
    /\ lastCall.cur > lastCall.target
    /\ lastCall.done # <<>>
    /\ \E v \in db.ledger : v > lastCall.target

\* C17: get_current_version, its query not failing for another reason,
\* returns Ok with the largest version of the ledger, and Ok(0) when the
\* ledger is empty or its table does not exist.
C17_CurrentVersionOrZero ==
    \A c \in Callers :
        (/\ mop[c] = "get_current_version"
         /\ mpc[c] = "done"
         /\ result[c] \in {"ok", "no_such_table"}) =>
            /\ mres[c] = "ok"
            /\ mcur[c] = MaxOf(db.ledger)

\* C18: get_migration_status on a file without ledger table, its queries not
\* failing for another reason, returns Ok with current_version 0,
\* is_up_to_date false and every registered migration pending.
C18_StatusOnFreshFile ==
    \A c \in Callers :
        (/\ mop[c] = "get_migration_status"
         /\ mpc[c] = "done"
         /\ ~db.ledgerTable
         /\ result[c] \in {"ok", "no_such_table"}) =>
            /\ mres[c] = "ok"
            /\ mstatus[c].current_version = 0
            /\ ~mstatus[c].is_up_to_date
            /\ mstatus[c].pending_migrations = Registered

\* C19: a status that get_migration_status returned and that reflects the
\* file as it is lists as pending exactly the registered migrations whose
\* version is not in the ledger, and is up to date exactly when the current
\* version is the latest registered one.
C19_PendingIsNotApplied ==
    \A c \in Callers :
        (/\ mop[c] = "get_migration_status"
         /\ mpc[c] = "done"
         /\ mres[c] = "ok"
         /\ mstatus[c].applied_migrations = db.ledger
         /\ mstatus[c].current_version = CurrentVersion(db)) =>
            /\ mstatus[c].pending_migrations = Registered \ db.ledger
            /\ mstatus[c].is_up_to_date <=> (CurrentVersion(db) = LatestVersion)

\* C20: after migrate(None) succeeded on a file holding no ledger row and no
\* migrated schema, the ledger has one row per registered migration and no
\* other, the current version is the latest registered one and the effect of
\* every registered forward script is present.
C20_MigrateLatestFromEmpty ==
    (/\ lastCall.res = "ok"
     /\ lastCall.raw = <<>>
     /\ lastCall.from.ledger = {}
     /\ lastCall.from.schema = {}) =>
        /\ db.ledger = Registered
        /\ Len(lastCall.done) = Cardinality(Registered)
        /\ CurrentVersion(db) = MaxOf(Registered)
        /\ Registered \subseteq db.schema

C20_Witness ==
    /\ lastCall.res = "ok"
    /\ lastCall.raw = <<>>
    /\ lastCall.from = EmptyDb
    /\ Len(migrations) = 1
    /\ migrations[1].version = 1
    /\ db.ledger = {1}
    /\ 1 \in db.schema

\* C21: after any sequence of add_migration and add_migrations calls the
\* manager's list holds the migrations registered, by non-decreasing version.
C21_RegistrySorted ==
    /\ \A i, j \in 1..Len(migrations) :
          i < j => migrations[i].version <= migrations[j].version
    /\ Len(migrations) = Len(regOrder)
    /\ Range(regOrder) = Registered

C21_Witness ==
    /\ Len(regOrder) = 4
    /\ regOrder[1] > regOrder[2]
    /\ regOrder[3] > regOrder[4]
    /\ migrations[1].version = 1
    /\ migrations[4].version = 2

\* C22: nothing is attempted twice in a call: a wrapper operation acquires
\* at most one handle, the closure of a migration step runs each of its
\* statements at most once, no migration is started twice by a migrate call,
\* and a migrate call starts a migration only when all it started before are
\* committed, so that the first failing migration is the last it starts and
\* the call returns Err.
C22_NoRetry ==
    /\ \A c \in Callers : acquired[c] <= 1
    /\ \A c \in Callers :
          (mpc[c] = "step" /\ pc[c] = "body") =>
              nstmt[c] + Len(script[c]) = Len(ApplyScript(Head(todo[c])))
    /\ Len(lastCall.tried) = Cardinality(Range(lastCall.tried))
    /\ Len(lastCall.tried) <= Len(lastCall.done) + 1
    /\ SubSeq(lastCall.tried, 1, Len(lastCall.done)) = lastCall.done
    /\ lastCall.res = "ok" => lastCall.tried = lastCall.done
    /\ Len(lastCall.tried) > Len(lastCall.done) =>
          lastCall.res \in {"none", "err"}

C22_Witness ==
    /\ lastCall.res = "err"
    /\ lastCall.target = 2
    /\ lastCall.cur = 0
    /\ Len(migrations) = 2
    /\ lastCall.tried = <<1>>
    /\ lastCall.done = <<>>

\* Reports check_health has returned, and reports get_health has returned.
Returned(c, kind) ==
    /\ hpc[c] = "done"
    /\ report[c].kind = kind

CheckNames(rep) == [i \in 1..Len(rep.checks) |-> rep.checks[i].name]

\* C23: check_health runs every sub-check whatever the earlier ones gave: the
\* report it returns holds the basic-connection, integrity, performance and
\* disk-usage checks, in that order, and the pool status.
C23_AllChecksRun ==
    \A c \in Callers :
        Returned(c, "check_health") =>
            /\ CheckNames(report[c]) = <<"basic", "integrity", "performance", "disk">>
            /\ report[c].pool_status.stats.max_connections = capacity

C23_Witness ==
    \E c \in Callers :
        /\ Returned(c, "check_health")
        /\ ~report[c].pool_status.healthy
        /\ ~report[c].checks[1].passed
        /\ ~report[c].checks[2].passed
        /\ Len(report[c].checks) = 4

\* C24: the healthy flag of a returned report is the conjunction of the pool
\* health and the basic-connection, integrity and disk-usage results; the
\* performance result has no part in it.
C24_HealthyIsConjunction ==
    \A c \in Callers :
        Returned(c, "check_health") =>
            report[c].healthy =
                (/\ report[c].pool_status.healthy
                 /\ report[c].checks[1].passed
                 /\ report[c].checks[2].passed
                 /\ report[c].checks[4].passed)

C24_Witness ==
    \E c \in Callers :
        /\ Returned(c, "check_health")
        /\ ~report[c].checks[3].passed
        /\ report[c].healthy

\* A returned report whose only failure, performance aside, is a file of
\* 1024 MB or more.
OnlyDiskFailed(c) ==
    /\ Returned(c, "check_health")
    /\ report[c].pool_status.healthy
    /\ report[c].checks[1].passed
    /\ report[c].checks[2].passed
    /\ report[c].checks[4].raw = "ok"
    /\ ~report[c].checks[4].passed

FirstFailure(rep) ==
    IF ~rep.checks[1].passed THEN rep.checks[1].error
    ELSE IF ~rep.checks[2].passed THEN rep.checks[2].error
    ELSE rep.checks[4].error

\* C26: a returned report with healthy false carries an error message, and
\* with a healthy pool it is the message of the first failed sub-check in the
\* order basic-connection, integrity, disk-usage.
C26_ErrorOnFailure ==
    \A c \in Callers :
        (Returned(c, "check_health") /\ ~report[c].healthy) =>
            /\ report[c].error # "none"
            /\ report[c].pool_status.healthy =>
                   report[c].error = FirstFailure(report[c])

C26_Counterexample ==
    \E c \in Callers :
        /\ Returned(c, "check_health")
        /\ report[c].pool_status.healthy
        /\ report[c].checks[1].passed
        /\ ~report[c].checks[2].passed
        /\ ~report[c].healthy
        /\ report[c].error = "none"

C28_UtilizationOfCheckedOut ==
    \A c \in Callers :
        (hpc[c] # "none" /\ report[c].kind = "get_health") =>
            report[c].pool_status.utilization_percentage =
                Utilization(report[c].held, capacity)

C28_Counterexample ==
    \E c \in Callers :
        /\ hpc[c] # "none"
        /\ report[c].kind = "get_health"
        /\ report[c].held = 0
        /\ report[c].pool_status.idle_connections > 0
        /\ report[c].pool_status.utilization_percentage > 0

\* C29: a health check made on a fresh pool, no handle checked out, the file
\* small and sound and no query failing, returns healthy true and a non-empty
\* list of checks, and check_health a response time above 0.
C29_FreshPoolHealthy ==
    \A c \in Callers :
        (hpc[c] = "done" /\ report[c].clean) =>
            /\ report[c].healthy
            /\ report[c].checks # <<>>
            /\ report[c].kind = "check_health" => report[c].response_time_ms > 0

C29_Counterexample ==
    \E c \in Callers :
        /\ hpc[c] = "done"
        /\ report[c].clean
        /\ \/ /\ report[c].kind = "get_health"
              /\ capacity = 1
              /\ ~report[c].healthy
           \/ /\ report[c].kind = "check_health"
              /\ report[c].healthy
              /\ report[c].response_time_ms = 0

\* C30: the pool status taken while a caller holds a handle has
\* 1 <= active <= capacity, the capacity being the configured maximum, which
\* never changes.
C30_ActiveWithinCapacity ==
    /\ [](\A c \in Callers :
            (hpc[c] # "none" /\ report[c].kind = "get_health"
                /\ report[c].held >= 1) =>
                /\ report[c].pool_status.active_connections >= 1
                /\ report[c].pool_status.active_connections
                       <= report[c].pool_status.total_connections
                /\ report[c].pool_status.total_connections = capacity)
    /\ [][capacity' = capacity]_vars

C30_Witness ==
    \E c \in Callers :
        /\ Returned(c, "get_health")
        /\ report[c].held >= 1
        /\ report[c].pool_status.active_connections = capacity


\* C31: with as many tasks as the pool has capacity or fewer, each of them
\* getting a handle, running one query and dropping the handle, no task is
\* refused by the pool (a task waiting in get() has a handle idle or being
\* opened for it) and a task that returns Ok returns the value of its own
\* query.
C31_TasksWithinCapacity ==
    capacity >= NumCallers =>
        \A c \in Callers :
            /\ result[c] # "pool_timeout"
            /\ pc[c] = "acquire" => (idle # {} \/ CanOpen)
            /\ (op[c] = "task" /\ pc[c] = "idle" /\ result[c] = "ok") => got[c] = c

C31_Witness ==
    /\ capacity >= NumCallers
    /\ op[1] = "task" /\ pc[1] = "idle" /\ result[1] = "ok" /\ got[1] = 1
    /\ op[2] = "task" /\ pc[2] = "row" /\ stmt[conn[2]] = 2
    /\ Cardinality(Established) = NumCallers

C32_TablesAfterNewOnAbsentFile ==
    (boot.pc = "done" /\ boot.res = "ok" /\ boot.is_new_database) =>
        InitTables \subseteq db.tables

C34_OneHandleAtATime ==
    \A c \in Callers :
        /\ pc[c] = "acquire" => (conn[c] = 0 /\ idle # {})
        /\ result[c] # "pool_timeout"
        /\ Cardinality(Held) <= 1

C34_Witness ==
    /\ capacity = 1
    /\ boot.is_new_database
    /\ hpc[BootCaller] = "page_size"
    /\ pc[BootCaller] = "acquire"
    /\ acquired[BootCaller] = 0
    /\ Len(report[BootCaller].checks) = 3

\* C35: with several migrate calls running at once on one file, an apply step
\* commits only a migration that the file does not hold at that moment, and
\* the commit adds exactly its ledger row: of two callers that selected the
\* same migration at most one commits it, the other one's step fails and is
\* rolled back.
C35_CommitAtMostOnce ==
    [][\A c \in Callers :
          (/\ mpc[c] = "step" /\ mdir[c] = "up"
           /\ pc[c] = "body" /\ pc'[c] = "idle" /\ result'[c] = "ok") =>
              /\ Head(todo[c]).version \notin db.ledger
              /\ Head(todo[c]).version \notin db.schema
              /\ db'.ledger = db.ledger \cup {Head(todo[c]).version}]_vars

C35_Witness ==
    /\ mpc[1] = "step" /\ mdir[1] = "up" /\ pc[1] = "idle" /\ result[1] = "ok"
    /\ mpc[2] = "step" /\ mdir[2] = "up" /\ pc[2] = "idle" /\ result[2] = "body_err"
    /\ Head(todo[1]) = Head(todo[2])
    /\ Head(todo[1]).version \in db.ledger

\* C36: an upward migrate that fails at one of its migrations keeps the ones
\* it applied before: they are in schema and ledger, the failing one and the
\* later ones of the range are in neither, and the current version is that of
\* the last one applied, or the version read by the call when the first failed.
C36_PartialUpwardMigrate ==
    (lastCall.res = "err" /\ lastCall.cur < lastCall.target /\ lastCall.tried # <<>>) =>
        LET k == Len(lastCall.tried)
        IN /\ lastCall.done = SubSeq(lastCall.tried, 1, k - 1)
           /\ db.ledger = lastCall.from.ledger \cup Range(lastCall.done)
           /\ db.schema = lastCall.from.schema \cup Range(lastCall.done)
           /\ \A w \in Between(lastCall.tried[k] - 1, lastCall.target) :
                 w \notin db.ledger /\ w \notin db.schema
           /\ CurrentVersion(db) =
                 IF k = 1 THEN lastCall.cur ELSE lastCall.tried[k - 1]

C36_Witness ==
    /\ lastCall.res = "err"
    /\ lastCall.cur = 0
    /\ lastCall.target = 2
    /\ lastCall.tried = <<1, 2>>
    /\ db.ledger = {1}
    /\ db.schema = {1}
    /\ mpc[1] = "done"

\* C37 as stated: a migrate(Some(t)) that returns Ok on a ledger of registered
\* versions leaves as current version the largest registered version at most
\* t, or 0.
C37_EndsAtLargestRegistered ==
    [][\A c \in Callers :
          (/\ mpc[c] # "done" /\ mpc'[c] = "done" /\ mop[c] = "migrate"
           /\ lastCall'.res = "ok" /\ lastCall'.raw # <<>>
           /\ lastCall'.from.ledger \subseteq Registered) =>
              CurrentVersion(db') =
                  MaxOf({v \in Registered : v <= lastCall'.target})]_vars

\* C37: a migrate(Some(t)) that returns Ok on a ledger of registered versions
\* leaves as current version the largest version at most t among the versions
\* the ledger held at the call and the registered versions above the version
\* that was current, or 0 when there is none. It is t only when t is 0 or a
\* registered version.
C37_EndsAtLargestApplied ==
    [][\A c \in Callers :
          (/\ mpc[c] # "done" /\ mpc'[c] = "done" /\ mop[c] = "migrate"
           /\ lastCall'.res = "ok" /\ lastCall'.raw # <<>>
           /\ lastCall'.from.ledger \subseteq Registered) =>
              /\ CurrentVersion(db') =
                    MaxOf({v \in lastCall'.from.ledger
                                 \cup Between(lastCall'.cur, lastCall'.target) :
                              v <= lastCall'.target})
              /\ CurrentVersion(db') = lastCall'.target =>
                    lastCall'.target \in Registered \cup {0}]_vars

C37_Witness ==
    /\ mpc[1] = "done" /\ mop[1] = "migrate"
    /\ lastCall.res = "ok"
    /\ lastCall.raw = <<1>>
    /\ Registered = {1, 2}
    /\ lastCall.from.ledger = {2}
    /\ lastCall.done = <<2>>
    /\ CurrentVersion(db) = 0

\* C38: a migrate call, running and returned, has changed only ledger rows of
\* versions above min(current, target) and at most max(current, target): an
\* upward call has deleted none, a downward call has inserted none.
C38_ChangesOnlyBetween ==
    lastCall.res # "never" =>
        LET cur == CurrentVersion(lastCall.from)
            t == lastCall.target
            lo == IF cur < t THEN cur ELSE t
            hi == IF cur < t THEN t ELSE cur
        IN /\ \A v \in db.ledger \cup lastCall.from.ledger :
                 (v <= lo \/ v > hi) => (v \in db.ledger <=> v \in lastCall.from.ledger)
           /\ cur < t => lastCall.from.ledger \subseteq db.ledger
           /\ cur >= t => db.ledger \subseteq lastCall.from.ledger

C38_Witness ==
    /\ mpc[1] = "done" /\ mop[1] = "migrate"
    /\ lastCall.res = "ok"
    /\ lastCall.from.ledger = {1, 2}
    /\ lastCall.target = 1
    /\ lastCall.done = <<2>>
    /\ db.ledger = {1}

\* The most recent call is migrate(Some(k)), the one before it a successful
\* migrate(Some(j)) with j < k that started on a ledger migrate(Some(k)) leaves
\* as it is, and every registered migration has a reverse script: the second
\* and third call of migrate(k), migrate(j), migrate(k).
RoundTrip ==
    /\ lastCall.raw # <<>> /\ prevCall.raw # <<>>
    /\ prevCall.raw[1] < lastCall.raw[1]
    /\ prevCall.res = "ok"
    /\ lastCall.res \in {"ok", "err"}
    /\ \A i \in 1..Len(migrations) : migrations[i].down
    /\ MaxOf(prevCall.ledger) <= lastCall.raw[1]
    /\ Between(MaxOf(prevCall.ledger), lastCall.raw[1]) = {}

Observing(c) ==
    \/ hpc[c] \in QuerySteps
    \/ /\ mop[c] \in {"get_current_version", "get_migration_status"}
       /\ mpc[c] \notin {"none", "done"}

\* C40: no step of an observation operation, from its call to its return and
\* whatever it returns, changes the schema, the ledger, the ledger table's
\* existence or the stored rows.
C40_ObservationLeavesDatabase ==
    [][\A c \in Callers :
          (/\ Observing(c) \/ Observing(c)'
           /\ pc'[c] # pc[c] \/ hpc'[c] # hpc[c] \/ mpc'[c] # mpc[c]) =>
              db' = db]_vars

C40_Witness ==
    /\ mop[1] = "get_migration_status" /\ mpc[1] = "done"
    /\ mres[1] = "ok"
    /\ hpc[1] = "done"
    /\ db.ledger = {1}
    /\ db.rows # {}

====
